---- MODULE Spec2Model ----
(***************************************************************************)
(* Cabal: multiplexing and routing layer.                                  *)
(*                                                                         *)
(*   ClaudeMultiplexer   src/src/multiplex/multiplexer.ts                  *)
(*   StreamSplitter      src/src/multiplex/stream-splitter.ts              *)
(*                                                                         *)
(* Text is modelled as sequences of one-character strings.  JSON.parse is  *)
(* modelled by a recursive-descent parser over the alphabet used by the    *)
(* sample inputs: objects, strings without escapes, unsigned integers and  *)
(* the literal null, with spaces as insignificant whitespace.              *)
(***************************************************************************)
EXTENDS Integers, Sequences, FiniteSets, TLC

(***************************************************************************)
(* JSON text and values                                                    *)
(***************************************************************************)

QUOTE == "\""
NL == "\n"

Digits == {"0", "1", "2", "3", "4", "5", "6", "7", "8", "9"}

\* Parsed values:  <<"str", chars>>, <<"num", digits>>, <<"null">>,
\* <<"obj", members>> with members a sequence of <<key chars, value>>;
\* <<"undef">> is JavaScript's undefined (a missing property).
Undefined == <<"undef">>
JsNull == <<"null">>
Str(cs) == <<"str", cs>>
Num(ds) == <<"num", ds>>
Obj(ms) == <<"obj", ms>>

ParseFail == [ok |-> FALSE, val |-> Undefined, next |-> 0]
ParseOk(v, n) == [ok |-> TRUE, val |-> v, next |-> n]

RECURSIVE SkipWs(_, _)
SkipWs(s, i) ==
    IF i <= Len(s) /\ s[i] = " " THEN SkipWs(s, i + 1) ELSE i

\* index of the first quote at or after i, 0 when there is none
RECURSIVE FindQuote(_, _)
FindQuote(s, i) ==
    IF i > Len(s) THEN 0
    ELSE IF s[i] = QUOTE THEN i
    ELSE FindQuote(s, i + 1)

\* index of the first non-digit at or after i
RECURSIVE SkipDigits(_, _)
SkipDigits(s, i) ==
    IF i <= Len(s) /\ s[i] \in Digits THEN SkipDigits(s, i + 1) ELSE i

ParseStringAt(s, i) ==
    IF i > Len(s) \/ s[i] # QUOTE THEN ParseFail
    ELSE LET j == FindQuote(s, i + 1)
         IN  IF j = 0 THEN ParseFail
             ELSE ParseOk(Str(SubSeq(s, i + 1, j - 1)), j + 1)

ParseNumberAt(s, i) ==
    IF i > Len(s) \/ s[i] \notin Digits THEN ParseFail
    ELSE IF s[i] = "0" THEN ParseOk(Num(<<"0">>), i + 1)
    ELSE LET j == SkipDigits(s, i)
         IN  ParseOk(Num(SubSeq(s, i, j - 1)), j)

ParseNullAt(s, i) ==
    IF i + 3 <= Len(s) /\ SubSeq(s, i, i + 3) = <<"n", "u", "l", "l">>
    THEN ParseOk(JsNull, i + 4)
    ELSE ParseFail

RECURSIVE ParseValueAt(_, _)
RECURSIVE ParseMembersAt(_, _, _)

\* members of an object, i at the start of a member; acc the members so far
ParseMembersAt(s, i, acc) ==
    LET k == ParseStringAt(s, SkipWs(s, i))
    IN  IF ~k.ok THEN ParseFail
        ELSE LET c == SkipWs(s, k.next)
             IN  IF c > Len(s) \/ s[c] # ":" THEN ParseFail
                 ELSE LET v == ParseValueAt(s, c + 1)
                      IN  IF ~v.ok THEN ParseFail
                          ELSE LET e == SkipWs(s, v.next)
                                   ms == Append(acc, <<k.val[2], v.val>>)
                               IN  IF e > Len(s) THEN ParseFail
                                   ELSE IF s[e] = "}" THEN ParseOk(Obj(ms), e + 1)
                                   ELSE IF s[e] = "," THEN ParseMembersAt(s, e + 1, ms)
                                   ELSE ParseFail

ParseValueAt(s, i) ==
    LET j == SkipWs(s, i)
    IN  IF j > Len(s) THEN ParseFail
        ELSE IF s[j] = "{"
             THEN LET m == SkipWs(s, j + 1)
                  IN  IF m <= Len(s) /\ s[m] = "}"
                      THEN ParseOk(Obj(<<>>), m + 1)
                      ELSE ParseMembersAt(s, j + 1, <<>>)
        ELSE IF s[j] = QUOTE THEN ParseStringAt(s, j)
        ELSE IF s[j] \in Digits THEN ParseNumberAt(s, j)
        ELSE IF s[j] = "n" THEN ParseNullAt(s, j)
        ELSE ParseFail

\* JSON.parse(text): a value, or a SyntaxError (ok = FALSE)
JSONParse(s) ==
    LET v == ParseValueAt(s, 1)
    IN  IF v.ok /\ SkipWs(s, v.next) > Len(s) THEN v ELSE ParseFail

\* line.trim() is the empty string
IsBlank(s) == \A i \in 1..Len(s) : s[i] = " "

\* data.split('\n')
RECURSIVE SplitFrom(_, _, _)
SplitFrom(s, i, cur) ==
    IF i > Len(s) THEN <<cur>>
    ELSE IF s[i] = NL THEN <<cur>> \o SplitFrom(s, i + 1, <<>>)
    ELSE SplitFrom(s, i + 1, Append(cur, s[i]))

SplitLines(s) == SplitFrom(s, 1, <<>>)

\* property read v.key: the last member of that name, undefined otherwise
RECURSIVE LookupFrom(_, _, _)
LookupFrom(ms, key, i) ==
    IF i = 0 THEN Undefined
    ELSE IF ms[i][1] = key THEN ms[i][2]
    ELSE LookupFrom(ms, key, i - 1)

GetProp(v, key) ==
    IF v[1] = "obj" THEN LookupFrom(v[2], key, Len(v[2])) ELSE Undefined

\* JavaScript truthiness of a parsed value
Truthy(v) ==
    /\ v[1] # "undef"
    /\ v[1] # "null"
    /\ ~(v[1] = "str" /\ v[2] = <<>>)
    /\ ~(v[1] = "num" /\ v[2] = <<"0">>)

Quoted(cs) == <<QUOTE>> \o cs \o <<QUOTE>>

K_type == <<"t", "y", "p", "e">>
K_data == <<"d", "a", "t", "a">>
K_streamId == <<"s", "t", "r", "e", "a", "m", "I", "d">>
K_agentId == <<"a", "g", "e", "n", "t", "I", "d">>
V_stream == <<"s", "t", "r", "e", "a", "m">>
V_response == <<"r", "e", "s", "p", "o", "n", "s", "e">>


(***************************************************************************)
(* Shared helpers for Map-like tables                                      *)
(***************************************************************************)

MapSet(m, k, v) == [x \in (DOMAIN m) \cup {k} |-> IF x = k THEN v ELSE m[x]]
MapDel(m, k) == [x \in (DOMAIN m) \ {k} |-> m[x]]
EmptyMap == [x \in {} |-> 0]

(***************************************************************************)
(* Bounds and inputs of the multiplexer model                              *)
(***************************************************************************)

\* constructor argument maxConcurrent: new ClaudeMultiplexer(2)
MaxConcurrent == 2
\* total number of subprocesses started in one behaviour
MaxProcs == 3
\* cap on the length of one agent's message buffer
MaxBuffered == 1

\* agent ids that callers pass as options.id (a generated id is one of them
\* that is not in use)
AgentIds == {"a1", "a2"}
Pids == 1..MaxProcs
\* exit code reported by the 'exit' event (null when ended by a signal)
ExitCodes == {"0", "null"}
\* outcome of the pipe write agent.stdin.write
WriteOutcomes == {"ok", "throws"}

\* lines a subprocess prints
Line_stream == <<"{">> \o Quoted(K_type) \o <<":">> \o Quoted(V_stream) \o <<"}">>
Line_object == <<"{", QUOTE, "a", QUOTE, ":", "1", "}">>
Line_null == <<"n", "u", "l", "l">>
Line_text == <<"h", "i", " ", "{">>
Line_spaces == <<" ", " ">>
Line_empty == <<>>

SampleLines == {Line_stream, Line_object, Line_null, Line_text, Line_spaces, Line_empty}

\* chunks read from a subprocess's stdout: lines separated by line breaks
SampleChunks ==
    {Line_stream \o <<NL>> \o Line_text,
     Line_null \o <<NL>> \o Line_object \o <<NL>>,
     Line_spaces \o <<NL>> \o Line_empty,
     Line_object \o <<NL>> \o Line_spaces \o <<NL>> \o Line_stream}

VARIABLES
    agents,          \* ClaudeMultiplexer.agents: agent id -> subprocess
    messageBuffer,   \* ClaudeMultiplexer.messageBuffer: agent id -> buffer
    streamHandlers,  \* agent ids with a stream handler
    procs,           \* subprocesses: state, agent id of its listeners, signalled
    exitEvents,      \* number of agent:exit events emitted per subprocess
    muxLast          \* what the last multiplexer operation did

muxVars == <<agents, messageBuffer, streamHandlers, procs, exitEvents, muxLast>>

NoOp == [op |-> "none", id |-> "", pid |-> 0, input |-> <<>>, result |-> "",
         events |-> <<>>, writes |-> {}, kills |-> {}, handlerCalls |-> 0]

MuxInit ==
    /\ agents = EmptyMap
    /\ messageBuffer = EmptyMap
    /\ streamHandlers = {}
    /\ procs = [p \in Pids |-> [state |-> "unused", agentId |-> "", signals |-> 0]]
    /\ exitEvents = [p \in Pids |-> 0]
    /\ muxLast = NoOp

LiveCount == Cardinality(DOMAIN agents)
\* admission check that lets one agent too many in
AtCapacityMut == LiveCount > MaxConcurrent
\* this.agents.size >= this.maxConcurrent
AtCapacity == LiveCount >= MaxConcurrent
UnusedPids == {p \in Pids : procs[p].state = "unused"}
FreshPid == CHOOSE p \in UnusedPids : \A q \in UnusedPids : p <= q

\* ChildProcess.kill(): delivers the signal to a process that still runs
Signal(ps, targets) ==
    [p \in Pids |-> IF p \in targets /\ ps[p].state = "running"
                    THEN [ps[p] EXCEPT !.signals = @ + 1]
                    ELSE ps[p]]

RECURSIVE SetToSeq(_)
SetToSeq(S) ==
    IF S = {} THEN <<>>
    ELSE LET x == CHOOSE y \in S : TRUE IN <<x>> \o SetToSeq(S \ {x})

(***************************************************************************)
(* ClaudeMultiplexer                                                       *)
(* Event listeners and stream handlers are taken to return normally.       *)
(***************************************************************************)

Event(name, id, type, data) ==
    [name |-> name, agentId |-> id, type |-> type, data |-> data]

\* spawnAgent(options) with options.id = id
SpawnAgent(id) ==
    IF AtCapacity
    THEN /\ muxLast' = [NoOp EXCEPT !.op = "spawnAgent", !.id = id,
                                    !.result = "CapacityExceeded"]
         /\ UNCHANGED <<agents, messageBuffer, streamHandlers, procs, exitEvents>>
    ELSE /\ UnusedPids # {}
         /\ LET p == FreshPid
            IN  /\ procs' = [procs EXCEPT ![p] = [state |-> "running", agentId |-> id, signals |-> 0]]
                /\ agents' = MapSet(agents, id, p)
                /\ messageBuffer' = MapSet(messageBuffer, id, [owner |-> p, len |-> 0])
                /\ muxLast' = [NoOp EXCEPT !.op = "spawnAgent", !.id = id, !.pid = p,
                                  !.result = "ok",
                                  !.events = <<Event("agent:spawn", id, Undefined, Undefined)>>]
         /\ UNCHANGED <<streamHandlers, exitEvents>>

\* sendToAgent that announces the message before looking the agent up
SendEffectMut(id, io) ==
    [result |-> IF id \notin DOMAIN agents THEN "AgentNotFound"
                ELSE IF io = "ok" THEN "ok" ELSE "WriteFailed",
     events |-> <<Event("message:send", id, Str(<<"r", "e", "q", "u", "e", "s", "t">>), Undefined)>>,
     writes |-> IF id \in DOMAIN agents /\ io = "ok" THEN {agents[id]} ELSE {}]

\* the events and pipe writes of one sendToAgent(id, message) call
SendEffect(id, io) ==
    IF id \notin DOMAIN agents
    THEN [result |-> "AgentNotFound", events |-> <<>>, writes |-> {}]
    ELSE [result |-> IF io = "ok" THEN "ok" ELSE "WriteFailed",
          events |-> <<Event("message:send", id, Str(<<"r", "e", "q", "u", "e", "s", "t">>), Undefined)>>,
          writes |-> IF io = "ok" THEN {agents[id]} ELSE {}]

SendToAgent(id, io) ==
    LET e == SendEffect(id, io)
    IN  /\ muxLast' = [NoOp EXCEPT !.op = "sendToAgent", !.id = id,
                                   !.result = e.result, !.events = e.events,
                                   !.writes = e.writes]
        /\ UNCHANGED <<agents, messageBuffer, streamHandlers, procs, exitEvents>>

RECURSIVE ConcatEvents(_, _, _)
ConcatEvents(ids, failing, i) ==
    IF i > Len(ids) THEN <<>>
    ELSE SendEffect(ids[i], IF ids[i] \in failing THEN "throws" ELSE "ok").events
         \o ConcatEvents(ids, failing, i + 1)

\* Promise.all over the sends: rejects as soon as one of them rejects
PromiseAll(results) ==
    IF \A r \in results : r = "ok" THEN "ok" ELSE "rejected"

\* broadcast(message); failing: the agents whose pipe write throws
Broadcast(failing) ==
    LET keys == DOMAIN agents
        outcome(id) == SendEffect(id, IF id \in failing THEN "throws" ELSE "ok")
    IN  /\ failing \subseteq keys
        /\ muxLast' = [NoOp EXCEPT !.op = "broadcast",
                          !.result = PromiseAll({outcome(id).result : id \in keys}),
                          !.events = ConcatEvents(SetToSeq(keys), failing, 1),
                          !.writes = UNION {outcome(id).writes : id \in keys}]
        /\ UNCHANGED <<agents, messageBuffer, streamHandlers, procs, exitEvents>>

\* the event one non-blank output line of agent id yields
LineEvent(id, line) ==
    LET r == JSONParse(line)
    IN  IF r.ok /\ r.val[1] # "null"
        THEN LET t == GetProp(r.val, K_type)
             IN  Event("message:receive", id,
                       IF Truthy(t) THEN t ELSE Str(V_response), r.val)
        ELSE Event("agent:output", id, Undefined, Str(line))

RECURSIVE LineEvents(_, _, _)
LineEvents(id, lines, i) ==
    IF i > Len(lines) THEN <<>>
    ELSE <<LineEvent(id, lines[i])>> \o LineEvents(id, lines, i + 1)

\* line filter that keeps blank lines
NonBlankLinesMut(chunk) == SplitLines(chunk)

NonBlankLines(chunk) == SelectSeq(SplitLines(chunk), LAMBDA l : ~IsBlank(l))

IsReceive(e) == e.name = "message:receive"
IsStreamReceive(e) ==
    /\ e.name = "message:receive"
    /\ GetProp(e.data, K_type) = Str(V_stream)

\* handleAgentOutput(agentId, data) called by the stdout listener of p
HandleAgentOutput(p, chunk) ==
    LET id == procs[p].agentId
        evs == LineEvents(id, NonBlankLines(chunk), 1)
        pushes == Len(SelectSeq(evs, IsReceive))
    IN  /\ procs[p].state # "unused"
        /\ id \in DOMAIN messageBuffer => messageBuffer[id].len + pushes <= MaxBuffered
        /\ messageBuffer' =
              IF id \in DOMAIN messageBuffer
              THEN [messageBuffer EXCEPT ![id].len = @ + pushes]
              ELSE messageBuffer
        /\ muxLast' = [NoOp EXCEPT !.op = "handleAgentOutput", !.id = id, !.pid = p,
                          !.input = chunk, !.result = "ok", !.events = evs,
                          !.handlerCalls =
                              IF id \in streamHandlers
                              THEN Len(SelectSeq(evs, IsStreamReceive)) ELSE 0]
        /\ UNCHANGED <<agents, streamHandlers, procs, exitEvents>>

SetStreamHandler(id) ==
    /\ streamHandlers' = streamHandlers \cup {id}
    /\ muxLast' = [NoOp EXCEPT !.op = "setStreamHandler", !.id = id]
    /\ UNCHANGED <<agents, messageBuffer, procs, exitEvents>>

RemoveStreamHandler(id) ==
    /\ streamHandlers' = streamHandlers \ {id}
    /\ muxLast' = [NoOp EXCEPT !.op = "removeStreamHandler", !.id = id]
    /\ UNCHANGED <<agents, messageBuffer, procs, exitEvents>>

\* killAgent that leaves the handle in the table
KillAgentMut(id) ==
    IF id \in DOMAIN agents
    THEN /\ procs' = Signal(procs, {agents[id]})
         /\ muxLast' = [NoOp EXCEPT !.op = "killAgent", !.id = id, !.pid = agents[id],
                                    !.result = "ok", !.kills = {agents[id]}]
         /\ UNCHANGED <<agents, messageBuffer, streamHandlers, exitEvents>>
    ELSE /\ muxLast' = [NoOp EXCEPT !.op = "killAgent", !.id = id, !.result = "ok"]
         /\ UNCHANGED <<agents, messageBuffer, streamHandlers, procs, exitEvents>>

KillAgent(id) ==
    IF id \in DOMAIN agents
    THEN /\ procs' = Signal(procs, {agents[id]})
         /\ agents' = MapDel(agents, id)
         /\ muxLast' = [NoOp EXCEPT !.op = "killAgent", !.id = id, !.pid = agents[id],
                                    !.result = "ok", !.kills = {agents[id]}]
         /\ UNCHANGED <<messageBuffer, streamHandlers, exitEvents>>
    ELSE /\ muxLast' = [NoOp EXCEPT !.op = "killAgent", !.id = id, !.result = "ok"]
         /\ UNCHANGED <<agents, messageBuffer, streamHandlers, procs, exitEvents>>

KillAll ==
    LET targets == {agents[id] : id \in DOMAIN agents}
    IN  /\ procs' = Signal(procs, targets)
        /\ agents' = EmptyMap
        /\ messageBuffer' = EmptyMap
        /\ muxLast' = [NoOp EXCEPT !.op = "killAll", !.result = "ok", !.kills = targets]
        /\ UNCHANGED <<streamHandlers, exitEvents>>

\* exit listener that forgets the message buffer
AgentExitMut(p, code) ==
    LET id == procs[p].agentId
    IN  /\ procs[p].state = "running"
        /\ procs' = [procs EXCEPT ![p].state = "exited"]
        /\ agents' = MapDel(agents, id)
        /\ exitEvents' = [exitEvents EXCEPT ![p] = @ + 1]
        /\ muxLast' = [NoOp EXCEPT !.op = "exit", !.id = id, !.pid = p, !.result = code,
                          !.events = <<Event("agent:exit", id, Undefined, Str(<<code>>))>>]
        /\ UNCHANGED <<messageBuffer, streamHandlers>>

\* the 'exit' listener of subprocess p, registered by spawnAgent
AgentExit(p, code) ==
    LET id == procs[p].agentId
    IN  /\ procs[p].state = "running"
        /\ procs' = [procs EXCEPT ![p].state = "exited"]
        /\ agents' = MapDel(agents, id)
        /\ messageBuffer' = MapDel(messageBuffer, id)
        /\ exitEvents' = [exitEvents EXCEPT ![p] = @ + 1]
        /\ muxLast' = [NoOp EXCEPT !.op = "exit", !.id = id, !.pid = p, !.result = code,
                          !.events = <<Event("agent:exit", id, Undefined, Str(<<code>>))>>]
        /\ UNCHANGED streamHandlers

(***************************************************************************)
(* StreamSplitter: reassembly and routing                                  *)
(***************************************************************************)

\* number of chunks fed to one splitter in one behaviour
MaxFed == 3
\* largest number of cuts made in one serialized message
MaxCuts == 2

V_default == <<"d", "e", "f", "a", "u", "l", "t">>
V_streamStart == <<"s", "t", "r", "e", "a", "m", ":", "s", "t", "a", "r", "t">>
V_streamChunk == <<"s", "t", "r", "e", "a", "m", ":", "c", "h", "u", "n", "k">>
V_streamEnd == <<"s", "t", "r", "e", "a", "m", ":", "e", "n", "d">>
V_s1 == <<"s", "1">>
V_s2 == <<"s", "2">>

VARIABLES
    streams,      \* StreamSplitter.streams: stream id -> lines written to it
    metadata,     \* StreamSplitter.metadata: stream id -> StreamMetadata
    buffers,      \* StreamSplitter.buffers: 'partial' -> buffered text
    splitLast,    \* what the last processChunk call routed and emitted
    routedLog,    \* every message routed since construction
    emittedCount, \* number of events emitted since construction
    fedCount,     \* number of chunks processed since construction
    original,     \* text of the message being delivered in pieces
    pending       \* its chunks not delivered yet

splitVars == <<streams, metadata, buffers, splitLast, routedLog, emittedCount,
               fedCount, original, pending>>

SplitInit ==
    /\ streams = EmptyMap
    /\ metadata = EmptyMap
    /\ buffers = EmptyMap
    /\ splitLast = [routed |-> <<>>, events |-> <<>>]
    /\ routedLog = <<>>
    /\ emittedCount = 0
    /\ fedCount = 0
    /\ original = <<>>
    /\ pending = <<>>

SEvent(name, sid, chunks) == [name |-> name, streamId |-> sid, chunks |-> chunks]

\* msg.streamId || msg.agentId || 'default'
StreamIdOf(msg) ==
    IF Truthy(GetProp(msg, K_streamId)) THEN GetProp(msg, K_streamId)
    ELSE IF Truthy(GetProp(msg, K_agentId)) THEN GetProp(msg, K_agentId)
    ELSE Str(V_default)

\* metadata that counts the creating message twice
NewMetadataMut(msg, sid) ==
    [agentId |-> IF Truthy(GetProp(msg, K_agentId)) THEN GetProp(msg, K_agentId) ELSE sid,
     streamId |-> sid,
     type |-> IF Truthy(GetProp(msg, K_type)) THEN GetProp(msg, K_type) ELSE Str(V_response),
     chunks |-> 1]

\* metadata of a stream created by msg
NewMetadata(msg, sid) ==
    [agentId |-> IF Truthy(GetProp(msg, K_agentId)) THEN GetProp(msg, K_agentId) ELSE sid,
     streamId |-> sid,
     type |-> IF Truthy(GetProp(msg, K_type)) THEN GetProp(msg, K_type) ELSE Str(V_response),
     chunks |-> 0]

\* meta.chunks++
CountChunk(meta) == [meta EXCEPT !.chunks = @ + 1]

\* cleanup(streamId)
Cleanup(st, sid) ==
    [st EXCEPT !.streams = MapDel(@, sid), !.metadata = MapDel(@, sid)]

\* routeMessage(msg) on the splitter state st; reading a property of null
\* throws before anything is changed
RouteMessage(st, msg) ==
    IF msg[1] = "null" THEN [st EXCEPT !.threw = TRUE]
    ELSE
    LET sid == StreamIdOf(msg)
        isNew == sid \notin DOMAIN st.streams
        st1 == IF isNew
               THEN [st EXCEPT !.streams = MapSet(@, sid, 0),
                               !.metadata = MapSet(@, sid, NewMetadata(msg, sid)),
                               !.events = Append(@, SEvent("stream:created", sid, 0))]
               ELSE st
        meta == CountChunk(st1.metadata[sid])
        st2 == [st1 EXCEPT !.metadata[sid] = meta, !.routed = Append(@, msg)]
        type == GetProp(msg, K_type)
    IN  IF type = Str(V_streamStart)
        THEN [st2 EXCEPT !.events = Append(@, SEvent("stream:start", sid, meta.chunks))]
        ELSE IF type = Str(V_streamChunk)
        THEN [st2 EXCEPT !.streams[sid] = @ + 1,
                         !.events = Append(@, SEvent("stream:chunk", sid, meta.chunks))]
        ELSE IF type = Str(V_streamEnd)
        THEN Cleanup([st2 EXCEPT !.events = Append(@, SEvent("stream:end", sid, meta.chunks))],
                     sid)
        ELSE [st2 EXCEPT !.streams[sid] = @ + 1]

\* this.buffers.get('partial') || ''
BufferedText(st) ==
    IF "partial" \in DOMAIN st.buffers THEN st.buffers["partial"] ELSE <<>>

\* handlePartialMessage(partial)
HandlePartialMessage(st, partial) ==
    LET combined == BufferedText(st) \o partial
        r == JSONParse(combined)
        routed == RouteMessage(st, r.val)
    IN  IF r.ok /\ ~routed.threw
        THEN [routed EXCEPT !.buffers = MapDel(@, "partial")]
        ELSE [st EXCEPT !.buffers = MapSet(@, "partial", combined)]

\* the body of the loop of processChunk for one line
ProcessLine(st, line) ==
    IF IsBlank(line) THEN st
    ELSE LET r == JSONParse(line)
             routed == RouteMessage(st, r.val)
         IN  IF r.ok /\ ~routed.threw THEN routed
             ELSE HandlePartialMessage(st, line)

RECURSIVE ProcessLines(_, _, _)
ProcessLines(st, lines, i) ==
    IF i > Len(lines) THEN st
    ELSE ProcessLines(ProcessLine(st, lines[i]), lines, i + 1)

\* processChunk(chunk)
ProcessChunk(chunk) ==
    LET st0 == [streams |-> streams, metadata |-> metadata, buffers |-> buffers,
                routed |-> <<>>, events |-> <<>>, threw |-> FALSE]
        st == ProcessLines(st0, SplitLines(chunk), 1)
    IN  /\ streams' = st.streams
        /\ metadata' = st.metadata
        /\ buffers' = st.buffers
        /\ splitLast' = [routed |-> st.routed, events |-> st.events]
        /\ routedLog' = routedLog \o st.routed
        /\ emittedCount' = emittedCount + Len(st.events)
        /\ fedCount' = fedCount + 1

\* serialized messages (JSON.stringify output: no space outside strings)
Member(k, v) == Quoted(k) \o <<":">> \o Quoted(v)
Object1(k, v) == <<"{">> \o Member(k, v) \o <<"}">>
Object2(k1, v1, k2, v2) == <<"{">> \o Member(k1, v1) \o <<",">> \o Member(k2, v2) \o <<"}">>

Msg_text == Object1(K_data, <<"a", " ", "b">>)
Msg_number == <<"{">> \o Quoted(K_data) \o <<":", "1", "2", "3", "}">>
Msg_start == Object1(K_type, V_streamStart)

SampleMessages == {Msg_text, Msg_number, Msg_start}

StreamLine(sid, type) == Object2(K_streamId, sid, K_type, type)

\* chunks fed to a splitter: whole lines of two streams, a line without a
\* stream id, two lines at once, the two halves of a line, text that is not
\* JSON and the literal null
SplitterChunks ==
    {StreamLine(sid, type) : sid \in {V_s1, V_s2},
                             type \in {V_streamStart, V_streamChunk, V_streamEnd, V_response}}
    \cup {Msg_text,
          Object1(K_agentId, V_s1),
          StreamLine(V_s1, V_streamEnd) \o <<NL>> \o StreamLine(V_s1, V_streamChunk),
          SubSeq(Msg_number, 1, 9), SubSeq(Msg_number, 10, 12),
          Line_text, Line_null}

\* the pieces of text cut before the positions in cuts
RECURSIVE CutChunks(_, _, _)
CutChunks(text, cuts, from) ==
    IF cuts = {} THEN <<SubSeq(text, from, Len(text))>>
    ELSE LET c == CHOOSE x \in cuts : \A y \in cuts : x <= y
         IN  <<SubSeq(text, from, c - 1)>> \o CutChunks(text, cuts \ {c}, c)

\* the sets of at most n cut positions
RECURSIVE CutsUpTo(_, _)
CutsUpTo(positions, n) ==
    IF n = 0 THEN {{}}
    ELSE LET smaller == CutsUpTo(positions, n - 1)
         IN  smaller \cup {c \cup {x} : c \in smaller, x \in positions}

CutSets(text) == CutsUpTo(2..Len(text), MaxCuts) \ {{}}

\* a chunk arrives on the splitter's input
Feed(chunk) ==
    /\ fedCount < MaxFed
    /\ original = <<>>
    /\ ProcessChunk(chunk)
    /\ UNCHANGED <<original, pending>>

\* a serialized message is about to reach a fresh splitter in pieces
BeginDelivery(text, cuts) ==
    /\ fedCount = 0
    /\ original = <<>>
    /\ original' = text
    /\ pending' = CutChunks(text, cuts, 1)
    /\ UNCHANGED <<streams, metadata, buffers, splitLast, routedLog, emittedCount, fedCount>>

\* the next piece arrives
DeliverChunk ==
    /\ pending # <<>>
    /\ ProcessChunk(Head(pending))
    /\ pending' = Tail(pending)
    /\ UNCHANGED original

(***************************************************************************)
(* StreamSplitter: response demultiplexing                                 *)
(***************************************************************************)

\* setTimeout delay of demuxResponse, milliseconds
RESPONSE_TIMEOUT == 30000
\* granularity of the clock, milliseconds
TimeStep == 10000
\* end of the observed time span, milliseconds
MaxTime == 40000
\* number of demuxResponse calls in one behaviour
MaxWaiters == 2

CorrelationIds == {"c1", "c2"}
Payloads == {"p1", "p2"}

VARIABLES
    clock,      \* current time, milliseconds
    waiters,    \* the promises returned by demuxResponse, in call order
    demuxLast   \* what the last splitter response operation did

demuxVars == <<clock, waiters, demuxLast>>

DemuxInit ==
    /\ clock = 0
    /\ waiters = <<>>
    /\ demuxLast = [op |-> "none", cid |-> "", resolved |-> {}, rejected |-> {}]

\* resolve(data) / reject(error) on the promise of w: only the first call
\* settles it
Settle(w, state, value) ==
    [w EXCEPT !.state = IF w.state = "pending" THEN state ELSE @,
              !.value = IF w.state = "pending" THEN value ELSE @,
              !.settleCalls = @ + 1]

\* the event loop runs the callbacks of expired timers before any other
\* callback
NoTimerDue == \A i \in DOMAIN waiters : waiters[i].timer => clock < waiters[i].due

\* demuxResponse(correlationId)
DemuxResponse(cid) ==
    /\ Len(waiters) < MaxWaiters
    /\ NoTimerDue
    /\ waiters' = Append(waiters,
          [cid |-> cid, registeredAt |-> clock, due |-> clock + RESPONSE_TIMEOUT,
           listening |-> TRUE, timer |-> TRUE, state |-> "pending", value |-> "",
           settleCalls |-> 0, firstMatch |-> ""])
    /\ demuxLast' = [op |-> "demuxResponse", cid |-> cid, resolved |-> {}, rejected |-> {}]
    /\ UNCHANGED clock

\* removeAllListeners(`response:${cid}`)
RemoveAllListeners(ws, cid) ==
    [i \in DOMAIN ws |-> IF ws[i].cid = cid THEN [ws[i] EXCEPT !.listening = FALSE]
                         ELSE ws[i]]

\* the once-listener of waiter w receives data
OnResponse(w, data) ==
    Settle([w EXCEPT !.listening = FALSE, !.timer = FALSE], "resolved", data)

\* a message with this correlation id reaches w while its promise is open
NoteMatch(w, cid, data) ==
    IF w.cid = cid /\ w.state = "pending" /\ w.firstMatch = ""
    THEN [w EXCEPT !.firstMatch = data] ELSE w

\* handleResponse(msg) with msg = {correlationId: cid, data}; cid = "" is a
\* message without correlation id
HandleResponse(cid, data) ==
    LET hit == {i \in DOMAIN waiters : cid # "" /\ waiters[i].cid = cid /\ waiters[i].listening}
    IN  /\ NoTimerDue
        /\ waiters' = [i \in DOMAIN waiters |->
                          IF i \in hit
                          THEN OnResponse(NoteMatch(waiters[i], cid, data), data)
                          ELSE NoteMatch(waiters[i], cid, data)]
        /\ demuxLast' = [op |-> "handleResponse", cid |-> cid, resolved |-> hit, rejected |-> {}]
        /\ UNCHANGED clock

\* the timeout callback of waiter i
ResponseTimeout(i) ==
    /\ i \in DOMAIN waiters
    /\ waiters[i].timer
    /\ clock >= waiters[i].due
    /\ LET ws == RemoveAllListeners(waiters, waiters[i].cid)
       IN  waiters' = [ws EXCEPT ![i] = Settle([ws[i] EXCEPT !.timer = FALSE],
                                               "rejected", "Response timeout")]
    /\ demuxLast' = [op |-> "timeout", cid |-> waiters[i].cid, resolved |-> {}, rejected |-> {i}]
    /\ UNCHANGED clock

\* time passes; a timer that is due runs before time passes further
Tick ==
    /\ clock + TimeStep <= MaxTime
    /\ NoTimerDue
    /\ clock' = clock + TimeStep
    /\ demuxLast' = [op |-> "tick", cid |-> "", resolved |-> {}, rejected |-> {}]
    /\ UNCHANGED waiters

(***************************************************************************)
(* Cabal.query: buffered request/response over the splitter's demux        *)
(***************************************************************************)

\* default of the timeout parameter of query, milliseconds
DEFAULT_QUERY_TIMEOUT == 10000
\* number of agents registered with the Cabal when query runs
MaxQueryAgents == 2

\* timeouts a caller passes: the default, and one beyond the demux timeout
QueryTimeouts == {DEFAULT_QUERY_TIMEOUT, RESPONSE_TIMEOUT + DEFAULT_QUERY_TIMEOUT}
\* crypto.randomUUID(): differs from every other correlation id
QueryCid == "q"

VARIABLES
    query       \* the one call of Cabal.query that is observed

queryVars == <<query>>

QueryInit ==
    query = [state |-> "idle", n |-> 0, from |-> 0, due |-> 0, responses |-> <<>>,
             resultLen |-> 0, answers |-> 0]

\* the demux waiters registered by the query, one per agent
Collectors == (query.from + 1)..(query.from + query.n)

\* .catch(() => {}): the collector promise is fulfilled whatever the outcome
\* of the demux waiter
CollectorOutcomeMut(outcome) == outcome

CollectorOutcome(outcome) == "fulfilled"

AllCollected == \A i \in Collectors : waiters[i].state # "pending"

QueryTimerDue == query.state = "waiting" /\ clock >= query.due

RECURSIVE NewWaiters(_, _)
NewWaiters(ws, n) ==
    IF n = 0 THEN ws
    ELSE NewWaiters(Append(ws,
            [cid |-> QueryCid, registeredAt |-> clock, due |-> clock + RESPONSE_TIMEOUT,
             listening |-> TRUE, timer |-> TRUE, state |-> "pending", value |-> "",
             settleCalls |-> 0, firstMatch |-> ""]), n - 1)

RECURSIVE PushTimes(_, _, _)
PushTimes(s, x, k) == IF k = 0 THEN s ELSE PushTimes(Append(s, x), x, k - 1)

\* query(question, timeout) with n agents: registers one collector per agent
\* under the same correlation id, sends the question to every agent, arms the
\* timer
Query(n, timeout) ==
    /\ query.state = "idle"
    /\ NoTimerDue
    /\ clock + timeout <= MaxTime
    /\ waiters' = NewWaiters(waiters, n)
    /\ query' = [state |-> "waiting", n |-> n, from |-> Len(waiters),
                 due |-> clock + timeout, responses |-> <<>>, resultLen |-> 0,
                 answers |-> 0]
    /\ demuxLast' = [op |-> "query", cid |-> QueryCid, resolved |-> {}, rejected |-> {}]
    /\ UNCHANGED clock

\* the answer of one agent reaches the splitter: handleResponse(msg); every
\* collector that resolves pushes the data to responses
AgentAnswers(cid, data) ==
    LET hit == {i \in Collectors : waiters[i].cid = cid /\ waiters[i].listening}
    IN  /\ ~QueryTimerDue
        /\ HandleResponse(cid, data)
        /\ query' = [query EXCEPT
                       !.responses = PushTimes(@, data, Cardinality(hit)),
                       !.answers = IF cid = QueryCid /\ query.state = "waiting" /\ @ < 2
                                   THEN @ + 1 ELSE @]

\* the 30000 ms timeout of a collector's demux waiter
CollectorTimeout(i) ==
    /\ ~QueryTimerDue
    /\ ResponseTimeout(i)
    /\ query' = IF /\ query.state = "waiting"
                   /\ i \in Collectors
                   /\ CollectorOutcome("rejected") = "rejected"
                THEN [query EXCEPT !.state = "rejected"]
                ELSE query

\* Promise.race settles: every collector has settled, or the timer fired
QueryReturn ==
    /\ query.state = "waiting"
    /\ AllCollected \/ clock >= query.due
    /\ query' = [query EXCEPT !.state = "resolved", !.resultLen = Len(query.responses)]
    /\ demuxLast' = [op |-> "queryReturn", cid |-> QueryCid, resolved |-> {}, rejected |-> {}]
    /\ UNCHANGED <<clock, waiters>>

QueryTick ==
    /\ ~QueryTimerDue
    /\ Tick
    /\ UNCHANGED query

(***************************************************************************)
(* AsyncRouter: routes, the message queue and its drain loop               *)
(***************************************************************************)

\* number of addRoute calls in one behaviour
MaxRoutes == 2
\* number of route:message events in one behaviour
MaxMessages == 3

T_t1 == <<"t", "1">>
T_t2 == <<"t", "2">>
T_zz == <<"z", "z">>
K_topic == <<"t", "o", "p", "i", "c">>
Absent == <<>>

\* the payloads of route:message events: {topic:"t1"}, {type:"t2"}, {topic:"zz"}
RouterMessages ==
    { [topic |-> T_t1, type |-> Absent],
      [topic |-> Absent, type |-> T_t2],
      [topic |-> T_zz, type |-> Absent] }

\* the configurations passed to addRoute; priority -1 stands for a missing
\* priority
RouteConfigs ==
    { [topic |-> "t1", pattern |-> [kind |-> "string", text |-> T_t1], priority |-> -1],
      [topic |-> "t2", pattern |-> [kind |-> "regexp", text |-> T_t1], priority |-> 5],
      [topic |-> "t2", pattern |-> [kind |-> "string", text |-> T_t2], priority |-> 0] }

\* routes that share a topic and overlap: priority 5, priority 0, no priority
PriorityConfigs ==
    { [topic |-> "t2", pattern |-> [kind |-> "regexp", text |-> T_t1], priority |-> 5],
      [topic |-> "t2", pattern |-> [kind |-> "string", text |-> T_t2], priority |-> 0],
      [topic |-> "t2", pattern |-> [kind |-> "string", text |-> T_t2], priority |-> -1],
      [topic |-> "t1", pattern |-> [kind |-> "string", text |-> T_t1], priority |-> -1] }

\* {topic:"t1", type:"t2"} matches every route above, {type:"t2"} only
\* the routes with the string pattern "t2"
OverlapMessages ==
    { [topic |-> T_t1, type |-> T_t2],
      [topic |-> Absent, type |-> T_t2] }

\* how a handler invocation ends: returns a truthy value, returns undefined,
\* throws an Error, rejects with undefined
HandlerOutcomes == {"result", "noresult", "error", "undefined"}

VARIABLES
    routes,         \* Map topic -> RouteConfig[] in insertion order of the topics
    messageQueue,   \* AsyncRouter.messageQueue
    processing,     \* AsyncRouter.processing
    drains,         \* the processQueue calls that have not returned
    arrived,        \* number of route:message events received
    dispatched,     \* arrival numbers of the dequeued messages, in dequeue order
    routerLast      \* what the last router operation did

routerVars == <<routes, messageQueue, processing, drains, arrived, dispatched, routerLast>>

RouterNoOp == [op |-> "none", started |-> <<>>, settled |-> 0, outcome |-> "",
               events |-> <<>>, dequeued |-> <<>>]

RouterInit ==
    /\ routes = <<>>
    /\ messageQueue = <<>>
    /\ processing = FALSE
    /\ drains = <<>>
    /\ arrived = 0
    /\ dispatched = <<>>
    /\ routerLast = RouterNoOp

\* a route:message event whose data is null
NullMessage == [null |-> TRUE]

IsNull(msg) == DOMAIN msg = {"null"}

\* JSON.stringify(msg)
JSONStringify(msg) ==
    IF IsNull(msg) THEN <<"n", "u", "l", "l">>
    ELSE <<"{">>
         \o (IF msg.topic # Absent THEN Member(K_topic, msg.topic) ELSE <<>>)
         \o (IF msg.topic # Absent /\ msg.type # Absent THEN <<",">> ELSE <<>>)
         \o (IF msg.type # Absent THEN Member(K_type, msg.type) ELSE <<>>)
         \o <<"}">>

\* RegExp.test for a pattern without metacharacters
Contains(text, sub) ==
    \E i \in 0..(Len(text) - Len(sub)) : SubSeq(text, i + 1, i + Len(sub)) = sub

\* matchesPattern(msg, pattern) throws: msg.topic is read of null
MatchThrows(msg, pattern) == IsNull(msg) /\ pattern.kind = "string"

\* matchesPattern(msg, pattern)
MatchesPattern(msg, pattern) ==
    IF pattern.kind = "string"
    THEN msg.topic = pattern.text \/ msg.type = pattern.text
    ELSE Contains(JSONStringify(msg), pattern.text)

\* pattern.toString()
PatternToString(pattern) ==
    IF pattern.kind = "string" THEN pattern.text ELSE <<"/">> \o pattern.text \o <<"/">>

\* a missing priority left as it is
PriorityOfMut(route) == route.priority

\* b.priority || 0
PriorityOf(route) == IF route.priority = -1 THEN 0 ELSE route.priority

\* routes.push(config); routes.sort((a, b) => (b.priority || 0) - (a.priority || 0)):
\* the sort is stable, so the new route goes behind the routes of the list
\* whose priority is not lower
RECURSIVE InsertSorted(_, _)
InsertSorted(list, route) ==
    IF list = <<>> THEN <<route>>
    ELSE IF PriorityOf(Head(list)) >= PriorityOf(route)
         THEN <<Head(list)>> \o InsertSorted(Tail(list), route)
         ELSE <<route>> \o list

RouteCount == LET RECURSIVE Sum(_)
                  Sum(i) == IF i = 0 THEN 0 ELSE Len(routes[i].list) + Sum(i - 1)
              IN  Sum(Len(routes))

\* addRoute(topic, config)
AddRoute(cfg) ==
    /\ RouteCount < MaxRoutes
    /\ LET route == [rid |-> RouteCount + 1, topic |-> cfg.topic,
                     pattern |-> cfg.pattern, priority |-> cfg.priority]
           known == \E i \in DOMAIN routes : routes[i].topic = cfg.topic
           withTopic == IF known THEN routes
                        ELSE Append(routes, [topic |-> cfg.topic, list |-> <<>>])
       IN  routes' = [i \in DOMAIN withTopic |->
                        IF withTopic[i].topic = cfg.topic
                        THEN [withTopic[i] EXCEPT !.list = InsertSorted(@, route)]
                        ELSE withTopic[i]]
    /\ routerLast' = [RouterNoOp EXCEPT !.op = "addRoute"]
    /\ UNCHANGED <<messageQueue, processing, drains, arrived, dispatched>>

\* for (const [topic, routes] of this.routes) for (const route of routes):
\* the routes in iteration order
RECURSIVE AllRoutes(_)
AllRoutes(rs) == IF rs = <<>> THEN <<>> ELSE Head(rs).list \o AllRoutes(Tail(rs))

RECURSIVE SelectMatching(_, _)
SelectMatching(list, msg) ==
    IF list = <<>> THEN <<>>
    ELSE (IF MatchesPattern(msg, Head(list).pattern) THEN <<Head(list)>> ELSE <<>>)
         \o SelectMatching(Tail(list), msg)

\* the first matching route only
MatchingRoutesMut(msg) ==
    LET m == SelectMatching(AllRoutes(routes), msg)
    IN  IF m = <<>> THEN <<>> ELSE <<Head(m)>>

\* the routes whose handler processQueue starts for msg, in start order
MatchingRoutes(msg) == SelectMatching(AllRoutes(routes), msg)

RidsOf(list) == {list[i].rid : i \in DOMAIN list}

\* the while loop of processQueue up to its next wait for pending handlers:
\* a message without matching route is dequeued and passed over
\* the routes in front of the first one whose test throws for msg; every
\* route when none throws
RECURSIVE BeforeThrow(_, _)
BeforeThrow(list, msg) ==
    IF list = <<>> \/ MatchThrows(msg, Head(list).pattern) THEN <<>>
    ELSE <<Head(list)>> \o BeforeThrow(Tail(list), msg)

\* an exception of matchesPattern leaves processQueue at once: the message
\* is gone from the queue, processing is still true and the loop is over;
\* handlers started before it run on without anyone waiting for them
RECURSIVE DrainFrom(_, _, _)
DrainFrom(queue, taken, seen) ==
    IF queue = <<>>
    THEN [queue |-> <<>>, taken |-> taken, running |-> FALSE, threw |-> FALSE, seq |-> 0,
          started |-> <<>>, dequeued |-> seen]
    ELSE LET item == Head(queue)
             tested == BeforeThrow(AllRoutes(routes), item.msg)
         IN  IF Len(tested) < Len(AllRoutes(routes))
             THEN LET st == SelectMatching(tested, item.msg)
                  IN  [queue |-> Tail(queue), taken |-> Append(taken, item.seq),
                       running |-> FALSE, threw |-> TRUE, seq |-> item.seq, started |-> st,
                       dequeued |-> Append(seen, [msg |-> item.msg, started |-> st])]
             ELSE LET st == MatchingRoutes(item.msg)
                      now == Append(seen, [msg |-> item.msg, started |-> st])
                  IN  IF st = <<>>
                      THEN DrainFrom(Tail(queue), Append(taken, item.seq), now)
                      ELSE [queue |-> Tail(queue), taken |-> Append(taken, item.seq),
                            running |-> TRUE, threw |-> FALSE, seq |-> item.seq,
                            started |-> st, dequeued |-> now]

Drain(queue, taken) == DrainFrom(queue, taken, <<>>)

DrainRecord(r) ==
    [seq |-> r.seq, started |-> r.started, pending |-> RidsOf(r.started),
     msg |-> r.dequeued[Len(r.dequeued)].msg]

\* if (!this.processing)
StartsDrainMut == TRUE

StartsDrain == ~processing

\* the route:message listener: enqueue, and start processQueue unless one runs
OnRouteMessage(msg) ==
    /\ arrived < MaxMessages
    /\ arrived' = arrived + 1
    /\ LET queue == Append(messageQueue, [msg |-> msg, seq |-> arrived + 1])
           r == Drain(queue, dispatched)
       IN  IF StartsDrain
           THEN /\ messageQueue' = r.queue
                /\ dispatched' = r.taken
                /\ processing' = (r.running \/ r.threw)
                /\ drains' = IF r.running THEN Append(drains, DrainRecord(r)) ELSE drains
                /\ routerLast' = [RouterNoOp EXCEPT !.op = "route:message",
                                                    !.started = r.started,
                                                    !.dequeued = r.dequeued]
           ELSE /\ messageQueue' = queue
                /\ routerLast' = [RouterNoOp EXCEPT !.op = "route:message"]
                /\ UNCHANGED <<dispatched, processing, drains>>
    /\ UNCHANGED routes

RouteOf(d, rid) == CHOOSE route \in {d.started[i] : i \in DOMAIN d.started} : route.rid = rid

REvent(name, route, error) ==
    [name |-> name, topic |-> route.topic, pattern |-> PatternToString(route.pattern),
     error |-> error]

\* the outcomes above and a handler that returns 0, false or ""
ResultOutcomes == HandlerOutcomes \cup {"falsy"}

\* what the handler returned
ReturnValueOfHandler(outcome) ==
    CASE outcome = "result" -> "value"
      [] outcome = "falsy" -> "0"
      [] OTHER -> "undefined"

\* the route:result event of handleRoute
ResultEvent(route, msg, result) ==
    [name |-> "route:result", originalMsg |-> msg, result |-> result, topic |-> route.topic]

\* if (result)
HasResult(outcome) == outcome = "result"

\* what handleRoute emits when its handler ends with this outcome; reading
\* error.message of undefined throws inside the catch block
HandleRouteEvents(route, msg, outcome) ==
    CASE outcome \in {"result", "falsy", "noresult"} ->
            <<REvent("route:handled", route, "")>>
            \o (IF HasResult(outcome)
                THEN <<ResultEvent(route, msg, ReturnValueOfHandler(outcome))>>
                ELSE <<>>)
      [] outcome = "error" -> <<REvent("route:error", route, "boom")>>
      [] OTHER -> <<>>

RemoveAt(s, i) == SubSeq(s, 1, i - 1) \o SubSeq(s, i + 1, Len(s))

\* the handler of route rid, started by drain loop d, ends; when it was the
\* last one pending, Promise.allSettled resolves and the loop goes on
HandlerSettles(d, rid, outcome) ==
    /\ d \in DOMAIN drains
    /\ rid \in drains[d].pending
    /\ LET rest == drains[d].pending \ {rid}
           r == Drain(messageQueue, dispatched)
           events == HandleRouteEvents(RouteOf(drains[d], rid), drains[d].msg, outcome)
       IN  IF rest # {}
           THEN /\ drains' = [drains EXCEPT ![d].pending = rest]
                /\ routerLast' = [RouterNoOp EXCEPT !.op = "settle", !.settled = rid,
                                     !.outcome = outcome, !.events = events]
                /\ UNCHANGED <<messageQueue, dispatched, processing>>
           ELSE /\ messageQueue' = r.queue
                /\ dispatched' = r.taken
                /\ processing' = (r.running \/ r.threw)
                /\ drains' = IF r.running THEN [drains EXCEPT ![d] = DrainRecord(r)]
                             ELSE RemoveAt(drains, d)
                /\ routerLast' = [RouterNoOp EXCEPT !.op = "settle", !.settled = rid,
                                     !.outcome = outcome, !.events = events,
                                     !.started = r.started,
                                     !.dequeued = r.dequeued]
    /\ UNCHANGED <<routes, arrived>>

(***************************************************************************)
(* AsyncRouter: request / onRequest                                        *)
(***************************************************************************)

\* default of the timeout parameter of request, milliseconds
DEFAULT_REQUEST_TIMEOUT == 5000
\* number of request calls in one behaviour
MaxRequests == 2
\* number of onRequest calls in one behaviour
MaxHandlers == 2

RequestTopics == {"t1", "t2"}
RequestTimeouts == {DEFAULT_REQUEST_TIMEOUT, 4 * DEFAULT_REQUEST_TIMEOUT}
\* what the handler of listener h returns when it succeeds
ReturnValueOf(h) == IF h = 1 THEN "v1" ELSE "v2"
\* how a request handler ends: returns a value, throws an Error, rejects with
\* undefined
ReplyOutcomes == {"result", "error", "undefined"}

VARIABLES
    requests,       \* the promises returned by request, in call order
    reqHandlers,    \* the topics of the onRequest listeners, in registration order
    invocations,    \* request handlers that run: [req, h]
    reqLast         \* what the last request operation did

requestVars == <<requests, reqHandlers, invocations, reqLast>>

NoReply == [kind |-> "none", value |-> ""]
ReqNoOp == [op |-> "none", req |-> 0, outcome |-> "", reply |-> NoReply]

RequestInit ==
    /\ requests = <<>>
    /\ reqHandlers = <<>>
    /\ invocations = {}
    /\ reqLast = ReqNoOp

NoRequestTimerDue == \A i \in DOMAIN requests : requests[i].timer => clock < requests[i].due

\* onRequest(topic, handler): one more listener of route:request
OnRequest(topic) ==
    /\ Len(reqHandlers) < MaxHandlers
    /\ NoRequestTimerDue
    /\ reqHandlers' = Append(reqHandlers, topic)
    /\ reqLast' = [ReqNoOp EXCEPT !.op = "onRequest"]
    /\ UNCHANGED <<requests, invocations, clock>>

\* if (event.data.topic === topic): the listeners that call their handler
HandlersFor(topic) == {h \in DOMAIN reqHandlers : reqHandlers[h] = topic}

\* request(topic, payload, timeout): arms the timer, registers the once
\* listener of the reply address, emits route:request to the listeners
Request(topic, timeout) ==
    /\ Len(requests) < MaxRequests
    /\ NoRequestTimerDue
    /\ clock + timeout <= MaxTime
    /\ LET id == Len(requests) + 1
       IN  /\ requests' = Append(requests,
                 [topic |-> topic, due |-> clock + timeout, listening |-> TRUE,
                  timer |-> TRUE, state |-> "pending", value |-> "", settleCalls |-> 0,
                  firstReply |-> NoReply])
           /\ invocations' = invocations \cup {[req |-> id, h |-> h] : h \in HandlersFor(topic)}
           /\ reqLast' = [ReqNoOp EXCEPT !.op = "request", !.req = id]
    /\ UNCHANGED <<reqHandlers, clock>>

\* the event the onRequest listener emits on the reply address; reading
\* error.message of undefined throws inside the catch block and nothing is
\* emitted
ReplyOf(outcome, value) ==
    CASE outcome = "result" -> [kind |-> "result", value |-> value]
      [] outcome = "error" -> [kind |-> "error", value |-> "boom"]
      [] OTHER -> NoReply

\* event.data.result of a reply event
ResultField(reply) == IF reply.kind = "result" THEN reply.value ELSE "undefined"

\* the once listener of the reply address: clearTimeout(timer);
\* resolve(event.data.result)
OnReply(r, reply) ==
    [r EXCEPT !.listening = FALSE, !.timer = FALSE,
              !.state = IF r.state = "pending" THEN "resolved" ELSE @,
              !.value = IF r.state = "pending" THEN ResultField(reply) ELSE @,
              !.settleCalls = @ + 1]

\* the handler called for request inv.req by listener inv.h ends
HandlerReplies(inv, outcome) ==
    /\ inv \in invocations
    /\ NoRequestTimerDue
    /\ invocations' = invocations \ {inv}
    /\ LET reply == ReplyOf(outcome, ReturnValueOf(inv.h))
           r == requests[inv.req]
           noted == IF reply.kind # "none" /\ r.state = "pending" /\ r.firstReply = NoReply
                    THEN [r EXCEPT !.firstReply = reply] ELSE r
       IN  /\ requests' = [requests EXCEPT ![inv.req] =
                              IF reply.kind # "none" /\ r.listening
                              THEN OnReply(noted, reply) ELSE noted]
           /\ reqLast' = [op |-> "reply", req |-> inv.req,
                          outcome |-> outcome, reply |-> reply]
    /\ UNCHANGED <<reqHandlers, clock>>

\* this.node.off(replyTo, handler) in the timeout callback
OffOnTimeout(r) == [r EXCEPT !.listening = FALSE]

\* the timeout callback of request i
RequestTimeout(i) ==
    /\ i \in DOMAIN requests
    /\ requests[i].timer
    /\ clock >= requests[i].due
    /\ LET r == OffOnTimeout([requests[i] EXCEPT !.timer = FALSE])
       IN  requests' = [requests EXCEPT ![i] =
                          [r EXCEPT !.state = IF r.state = "pending" THEN "rejected" ELSE @,
                                    !.value = IF r.state = "pending" THEN "Request timeout" ELSE @,
                                    !.settleCalls = @ + 1]]
    /\ reqLast' = [ReqNoOp EXCEPT !.op = "timeout", !.req = i]
    /\ UNCHANGED <<reqHandlers, invocations, clock>>

RequestTick ==
    /\ NoRequestTimerDue
    /\ clock + TimeStep <= MaxTime
    /\ clock' = clock + TimeStep
    /\ reqLast' = [ReqNoOp EXCEPT !.op = "tick"]
    /\ UNCHANGED <<requests, reqHandlers, invocations>>

(***************************************************************************)
(* PeerAgent: discovery, peer requests, shutdown                           *)
(* The event bus is an external transport: an event on the bus may reach   *)
(* the listener of any node, its emitter included.                         *)
(***************************************************************************)

\* milliseconds after which requestFromPeer gives up
PEER_TIMEOUT == 30000
\* number of shutdown calls per node in one behaviour
MaxShutdowns == 2

NodeIds == {"n1", "n2"}
\* randomUUID() in spawnAgent: an id no other agent has
UuidFor(n) == IF n = "n1" THEN "a1" ELSE "a2"
\* request ids carried by peer:response events: 1 is the id of the observed
\* request, 0 the id of a request of some other requester
ResponseIds == {0, 1}
PeerData == {"d1", "d2"}

\* a chunk of subprocess output: a line of plain text and a response line
PeerChunks == {Line_text \o <<NL>> \o Line_object \o <<NL>>}

VARIABLES
    peerNodes,      \* per PeerAgent: agentId, peers, and what it has seen
    peerRequests,   \* the promise returned by the observed requestFromPeer call
    peerLast        \* what the last PeerAgent operation did

peerVars == <<peerNodes, peerRequests, peerLast>>

PeerNoOp == [op |-> "none", node |-> "", req |-> 0, result |-> "", emitted |-> <<>>]

PeerInit ==
    /\ peerNodes = [n \in NodeIds |->
                      [agentId |-> "", peers |-> {}, heard |-> {}, shutdowns |-> 0,
                       leaves |-> 0]]
    /\ peerRequests = <<>>
    /\ peerLast = PeerNoOp

BusEvent(name, nodeId, requestId, data) ==
    [name |-> name, nodeId |-> nodeId, requestId |-> requestId, data |-> data]

\* a step of a PeerAgent that calls no multiplexer operation
MuxIdle ==
    /\ muxLast' = NoOp
    /\ UNCHANGED <<agents, messageBuffer, streamHandlers, procs, exitEvents>>

NoPeerTimerDue ==
    \A i \in DOMAIN peerRequests : peerRequests[i].timer => clock < peerRequests[i].due

\* initialize(): spawns the subprocess under a generated id, announces the node
Initialize(n) ==
    /\ peerNodes[n].agentId = ""
    /\ NoPeerTimerDue
    /\ SpawnAgent(UuidFor(n))
    /\ IF AtCapacity
       THEN /\ peerLast' = [PeerNoOp EXCEPT !.op = "initialize", !.node = n,
                                            !.result = "CapacityExceeded"]
            /\ UNCHANGED peerNodes
       ELSE /\ peerNodes' = [peerNodes EXCEPT ![n].agentId = UuidFor(n)]
            /\ peerLast' = [PeerNoOp EXCEPT !.op = "initialize", !.node = n,
                               !.result = "ok",
                               !.emitted = <<BusEvent("peer:announce", n, 0, "")>>]
    /\ UNCHANGED <<peerRequests, clock>>

\* if (nodeId !== this.nodeId)
IsOtherNodeMut(n, nodeId) == TRUE

IsOtherNode(n, nodeId) == nodeId # n

\* the peer:announce listener of node n receives the announcement of nodeId
OnPeerAnnounce(n, nodeId) ==
    /\ NoPeerTimerDue
    /\ peerNodes' = [peerNodes EXCEPT
                        ![n].heard = @ \cup {nodeId},
                        ![n].peers = IF IsOtherNode(n, nodeId) THEN @ \cup {nodeId} ELSE @]
    /\ peerLast' = [PeerNoOp EXCEPT !.op = "peer:announce", !.node = n, !.result = nodeId,
                       !.emitted = IF IsOtherNode(n, nodeId)
                                   THEN <<BusEvent("peer:discovered", nodeId, 0, "")>>
                                   ELSE <<>>]
    /\ MuxIdle
    /\ UNCHANGED <<peerRequests, clock>>

\* requestFromPeer(targetNodeId, query) called on node n
RequestFromPeer(n, target) ==
    /\ peerRequests = <<>>
    /\ NoPeerTimerDue
    /\ clock + PEER_TIMEOUT <= MaxTime
    /\ peerRequests' = Append(peerRequests,
          [from |-> n, to |-> target, due |-> clock + PEER_TIMEOUT, listening |-> TRUE,
           timer |-> TRUE, state |-> "pending", value |-> "", firstMatch |-> "",
           forwardedBy |-> {}])
    /\ peerLast' = [PeerNoOp EXCEPT !.op = "requestFromPeer", !.node = n,
                       !.req = Len(peerRequests) + 1,
                       !.emitted = <<BusEvent("peer:request", n, Len(peerRequests) + 1, "")>>]
    /\ MuxIdle
    /\ UNCHANGED <<peerNodes, clock>>

\* the peer:request listener of node n receives request i and forwards it to
\* its own subprocess: sendToAgent(this.agentId, content, requestId)
OnPeerRequest(n, i, io) ==
    /\ i \in DOMAIN peerRequests
    /\ n \notin peerRequests[i].forwardedBy
    /\ NoPeerTimerDue
    /\ SendToAgent(peerNodes[n].agentId, io)
    /\ peerRequests' = [peerRequests EXCEPT ![i].forwardedBy =
                           IF SendEffect(peerNodes[n].agentId, io).result = "ok"
                           THEN @ \cup {n} ELSE @]
    /\ peerLast' = [PeerNoOp EXCEPT !.op = "peer:request", !.node = n, !.req = i,
                       !.result = SendEffect(peerNodes[n].agentId, io).result]
    /\ UNCHANGED <<peerNodes, clock>>

\* if (event.data.requestId === requestId)
MatchesRequestMut(i, e) == TRUE

MatchesRequest(i, e) == e.requestId = i

\* the peer:response listener of request i receives event e: a matching event
\* removes the listener and resolves the promise (the timer stays armed)
OnPeerResponse(r, i, e) ==
    LET noted == [r EXCEPT
                    !.firstMatch = IF e.requestId = i /\ r.state = "pending" /\ @ = ""
                                   THEN e.data ELSE @]
    IN  IF r.listening /\ MatchesRequest(i, e)
        THEN [noted EXCEPT !.listening = FALSE,
                           !.state = "resolved",
                           !.value = IF r.state = "pending" THEN e.data ELSE @]
        ELSE noted

\* the peer:response events of a sequence of bus events reach every listener
RECURSIVE DeliverResponses(_, _)
DeliverResponses(reqs, events) ==
    IF events = <<>> THEN reqs
    ELSE DeliverResponses(
            IF Head(events).name = "peer:response"
            THEN [i \in DOMAIN reqs |-> OnPeerResponse(reqs[i], i, Head(events))]
            ELSE reqs,
            Tail(events))

\* a peer:response event of any origin arrives on the bus
ExternalPeerResponse(rid, data) ==
    /\ peerRequests # <<>>
    /\ NoPeerTimerDue
    /\ peerRequests' = DeliverResponses(peerRequests,
                          <<BusEvent("peer:response", "", rid, data)>>)
    /\ peerLast' = [PeerNoOp EXCEPT !.op = "peer:response", !.req = rid, !.result = data]
    /\ MuxIdle
    /\ UNCHANGED <<peerNodes, clock>>

\* msg.correlationId of a message:receive event: handleAgentOutput builds the
\* message without that property
MsgCorrelationId(e) == IF "correlationId" \in DOMAIN e THEN e.correlationId ELSE Undefined

\* the request id a correlation id names
RequestIdOf(v) == IF v = Str(<<"r", "1">>) THEN 1 ELSE 0

K_confidence == <<"c", "o", "n", "f", "i", "d", "e", "n", "c", "e">>
V_discovery == <<"d", "i", "s", "c", "o", "v", "e", "r", "y">>

\* shouldBroadcast(msg): msg.data.confidence > 0.8 || msg.data.type === 'discovery'
ShouldBroadcast(e) ==
    LET c == GetProp(e.data, K_confidence)
    IN  \/ c[1] = "num" /\ \E k \in DOMAIN c[2] : c[2][k] # "0"
        \/ GetProp(e.data, K_type) = Str(V_discovery)

\* handleClaudeResponse(msg) on node n
HandleClaudeResponse(n, e) ==
    (IF Truthy(MsgCorrelationId(e))
     THEN <<BusEvent("peer:response", n, RequestIdOf(MsgCorrelationId(e)), "data")>>
     ELSE <<>>)
    \o (IF ShouldBroadcast(e) THEN <<BusEvent("peer:discovery", n, 0, "")>> ELSE <<>>)

RECURSIVE ClaudeResponses(_, _, _)
ClaudeResponses(n, events, k) ==
    IF k > Len(events) THEN <<>>
    ELSE (IF IsReceive(events[k]) /\ events[k].agentId = peerNodes[n].agentId
          THEN HandleClaudeResponse(n, events[k]) ELSE <<>>)
         \o ClaudeResponses(n, events, k + 1)

\* the subprocess of node n prints chunk: handleAgentOutput, then the
\* message:receive listener of the node
PeerAgentOutput(n, chunk) ==
    /\ peerNodes[n].agentId \in DOMAIN agents
    /\ NoPeerTimerDue
    /\ HandleAgentOutput(agents[peerNodes[n].agentId], chunk)
    /\ LET evs == LineEvents(peerNodes[n].agentId, NonBlankLines(chunk), 1)
           out == ClaudeResponses(n, evs, 1)
       IN  /\ peerRequests' = DeliverResponses(peerRequests, out)
           /\ peerLast' = [PeerNoOp EXCEPT !.op = "output", !.node = n,
                              !.result = IF \E k \in DOMAIN evs : IsReceive(evs[k])
                                         THEN "message:receive" ELSE "agent:output",
                              !.emitted = out]
    /\ UNCHANGED <<peerNodes, clock>>

\* the 30 second timer of request i: removes the listener, resolve(null)
PeerTimeout(i) ==
    /\ i \in DOMAIN peerRequests
    /\ peerRequests[i].timer
    /\ clock >= peerRequests[i].due
    /\ peerRequests' = [peerRequests EXCEPT
                           ![i].timer = FALSE,
                           ![i].listening = FALSE,
                           ![i].state = "resolved",
                           ![i].value = IF peerRequests[i].state = "pending" THEN "null" ELSE @]
    /\ peerLast' = [PeerNoOp EXCEPT !.op = "timeout", !.req = i]
    /\ MuxIdle
    /\ UNCHANGED <<peerNodes, clock>>

PeerTick ==
    /\ NoPeerTimerDue
    /\ clock + TimeStep <= MaxTime
    /\ clock' = clock + TimeStep
    /\ peerLast' = [PeerNoOp EXCEPT !.op = "tick"]
    /\ MuxIdle
    /\ UNCHANGED <<peerNodes, peerRequests>>

\* shutdown(): killAgent(this.agentId), then emit peer:leave
Shutdown(n) ==
    /\ peerNodes[n].shutdowns < MaxShutdowns
    /\ NoPeerTimerDue
    /\ KillAgent(peerNodes[n].agentId)
    /\ peerNodes' = [peerNodes EXCEPT ![n].shutdowns = @ + 1, ![n].leaves = @ + 1]
    /\ peerLast' = [PeerNoOp EXCEPT !.op = "shutdown", !.node = n, !.result = "ok",
                       !.emitted = <<BusEvent("peer:leave", n, 0, "")>>]
    /\ UNCHANGED <<peerRequests, clock>>

(***************************************************************************)
(* PeerAgent: directed and broadcast messages                              *)
(***************************************************************************)

\* number of peer:message events emitted in one behaviour
MaxPeerMessages == 1

V_broadcast == "broadcast"
\* the `to` of a peer:message: a node id, the broadcast target, other names
PeerTargets == NodeIds \cup {V_broadcast, "all"}
\* msg.content.type
ContentTypes == {"query", "share", "note"}

VARIABLES
    peerMessages,   \* the peer:message events emitted so far, and who got them
    peerInbox       \* per PeerAgent: messages handled, knowledge stored

peerMsgVars == <<peerMessages, peerInbox>>

PeerMsgInit ==
    /\ peerMessages = <<>>
    /\ peerInbox = [n \in NodeIds |-> [handled |-> {}, shared |-> {}]]

PeerMessage(from, to, type) ==
    [name |-> "peer:message", from |-> from, to |-> to, type |-> type]

\* node.emit('peer:message', msg): one event on the bus
EmitPeerMessage(msg) ==
    /\ Len(peerMessages) < MaxPeerMessages
    /\ peerMessages' = Append(peerMessages, [msg |-> msg, deliveredTo |-> {}])

\* sendToPeer(targetNodeId, content) called on node n
SendToPeer(n, target, type) ==
    /\ NoPeerTimerDue
    /\ EmitPeerMessage(PeerMessage(n, target, type))
    /\ peerLast' = [PeerNoOp EXCEPT !.op = "sendToPeer", !.node = n, !.result = target,
                       !.emitted = <<PeerMessage(n, target, type)>>]
    /\ MuxIdle
    /\ UNCHANGED <<peerNodes, peerRequests, peerInbox, clock>>

\* broadcast(content) called on node n
PeerBroadcast(n, type) ==
    /\ NoPeerTimerDue
    /\ EmitPeerMessage(PeerMessage(n, V_broadcast, type))
    /\ peerLast' = [PeerNoOp EXCEPT !.op = "broadcast", !.node = n,
                       !.emitted = <<PeerMessage(n, V_broadcast, type)>>]
    /\ MuxIdle
    /\ UNCHANGED <<peerNodes, peerRequests, peerInbox, clock>>

\* target check that knows no broadcast target
IsForNodeMut(n, msg) == msg.to = n

\* if (msg.to === this.nodeId || msg.to === 'broadcast')
IsForNode(n, msg) == msg.to = n \/ msg.to = V_broadcast

\* the peer:message listener of node n receives message i; a message for the
\* node goes to handlePeerMessage: a query is forwarded to the subprocess,
\* shared knowledge is stored under the sender's name
OnPeerMessage(n, i, io) ==
    /\ i \in DOMAIN peerMessages
    /\ n \notin peerMessages[i].deliveredTo
    /\ NoPeerTimerDue
    /\ LET msg == peerMessages[i].msg
           mine == IsForNode(n, msg)
       IN  /\ peerMessages' = [peerMessages EXCEPT ![i].deliveredTo = @ \cup {n}]
           /\ peerInbox' = [peerInbox EXCEPT
                               ![n].handled = IF mine THEN @ \cup {i} ELSE @,
                               ![n].shared = IF mine /\ msg.type = "share"
                                             THEN @ \cup {msg.from} ELSE @]
           /\ IF mine /\ msg.type = "query"
              THEN SendToAgent(peerNodes[n].agentId, io)
              ELSE io = "ok" /\ MuxIdle
           /\ peerLast' = [PeerNoOp EXCEPT !.op = "peer:message", !.node = n, !.req = i,
                              !.result = IF mine THEN "handled" ELSE "ignored"]
    /\ UNCHANGED <<peerNodes, peerRequests, clock>>

(***************************************************************************)
(* HumanInTheLoopCoordinator                                               *)
(* Decisions reach the coordinator as route:message events of its router.  *)
(* Confidence is counted in tenths.  Listeners of the coordinator's own    *)
(* events return normally and do not call back into it.                    *)
(***************************************************************************)

\* request.timeout of an approval request, in milliseconds
HUMAN_TIMEOUT == 30000
\* humanAttentionThreshold = 0.8, in tenths
ATTENTION_THRESHOLD == 8
\* number of route:message events the coordinator's router receives
MaxHumanMessages == 2

V_decisionDeploy == <<"d", "e", "c", "i", "s", "i", "o", "n", ":", "d", "e", "p", "l", "o", "y">>
V_decisionLint == <<"d", "e", "c", "i", "s", "i", "o", "n", ":", "l", "i", "n", "t">>
V_helpStuck == <<"h", "e", "l", "p", ":", "s", "t", "u", "c", "k">>
V_agentChat == <<"a", "g", "e", "n", "t", ":", "c", "h", "a", "t">>
\* a decision whose type also asks for help
V_decisionHelp == <<"d", "e", "c", "i", "s", "i", "o", "n", ":", "h", "e", "l", "p", ":">>

\* the payloads of the route:message events: msg.type, msg.agentId,
\* msg.decisionType, msg.confidence (tenths), msg.urgent
HumanMsg(type, agentId, decisionType, confidence, urgent) ==
    [type |-> type, agentId |-> agentId, decisionType |-> decisionType,
     confidence |-> confidence, urgent |-> urgent]

\* decisions: confident, unsure, of an agent without policy, at the threshold
DecisionMessages ==
    { HumanMsg(V_decisionDeploy, "a1", "deploy", 9, FALSE),
      HumanMsg(V_decisionDeploy, "a1", "deploy", 5, FALSE),
      HumanMsg(V_decisionDeploy, "a2", "deploy", 9, FALSE),
      HumanMsg(V_decisionLint, "a1", "lint", 5, FALSE),
      HumanMsg(V_decisionLint, "a1", "lint", 8, FALSE) }

\* calls for help, a decision, a message no route takes
AttentionMessages ==
    { HumanMsg(V_helpStuck, "a1", "", 9, TRUE),
      HumanMsg(V_decisionHelp, "a1", "deploy", 9, FALSE),
      HumanMsg(V_decisionLint, "a1", "lint", 5, FALSE),
      HumanMsg(V_agentChat, "a1", "", 9, FALSE) }

\* the agents setAgentPolicy is called for
PolicyAgents == {"a1"}
\* the requiresApprovalFor lists passed to setAgentPolicy
ApprovalLists == {{}, {"deploy"}}
\* handler results: {approved, <flag>: true} or the human's response
Verdict(approved, flag) == [approved |-> approved, flag |-> flag]
NoVerdict == Verdict(FALSE, "none")
\* what a human answers: {approved: true}, {approved: false}
HumanResponses == {Verdict(TRUE, "human"), Verdict(FALSE, "human")}

VARIABLES
    policies,          \* HumanInTheLoopCoordinator.policies: agent id -> requiresApprovalFor
    pendingRequests,   \* HumanInTheLoopCoordinator.pendingRequests, in insertion order
    humanWaits,        \* per request id: the promise, its listener and its timer
    humanQueue,        \* the messageQueue of the coordinator's router
    humanInFlight,     \* the message whose handlers processQueue awaits
    humanArrived,      \* number of route:message events received
    humanLast          \* what the last coordinator operation did

humanVars == <<policies, pendingRequests, humanWaits, humanQueue, humanInFlight,
               humanArrived, humanLast>>

HumanNoOp == [op |-> "none", id |-> 0, started |-> <<>>, emitted |-> <<>>, results |-> <<>>,
              list |-> <<>>]
Idle == [busy |-> FALSE, seq |-> 0, awaits |-> {}]

HumanInit ==
    /\ policies = EmptyMap
    /\ pendingRequests = <<>>
    /\ humanWaits = <<>>
    /\ humanQueue = <<>>
    /\ humanInFlight = Idle
    /\ humanArrived = 0
    /\ humanLast = HumanNoOp

\* setAgentPolicy(agentId, {requiresApprovalFor})
SetAgentPolicy(agentId, list) ==
    /\ policies' = MapSet(policies, agentId, list)
    /\ humanLast' = [HumanNoOp EXCEPT !.op = "setAgentPolicy"]
    /\ UNCHANGED <<pendingRequests, humanWaits, humanQueue, humanInFlight, humanArrived>>

\* the digit JSON.stringify prints after "0." for a confidence in tenths
TenthsDigit(c) == IF c = 5 THEN "5" ELSE IF c = 8 THEN "8" ELSE "9"

\* JSON.stringify(msg), up to the properties that hold text
HumanStringify(msg) ==
    <<"{">> \o Member(K_type, msg.type) \o <<",">>
    \o Quoted(K_confidence) \o <<":", "0", ".", TenthsDigit(msg.confidence)>>
    \o <<"}">>

StartsWith(text, sub) == Len(text) >= Len(sub) /\ SubSeq(text, 1, Len(sub)) = sub

\* the routes of setupRoutes in the iteration order of the router's topics:
\* decision /decision:/, agent-comm /^agent:/, human-needed /human:|attention:|help:/
HumanRouteMatches(route, msg) ==
    LET text == HumanStringify(msg)
    IN  CASE route = "decision" ->
               Contains(text, <<"d", "e", "c", "i", "s", "i", "o", "n", ":">>)
          [] route = "agent-comm" -> StartsWith(text, <<"a", "g", "e", "n", "t", ":">>)
          [] OTHER ->
               \/ Contains(text, <<"h", "u", "m", "a", "n", ":">>)
               \/ Contains(text, <<"a", "t", "t", "e", "n", "t", "i", "o", "n", ":">>)
               \/ Contains(text, <<"h", "e", "l", "p", ":">>)

HumanRoutes == <<"decision", "agent-comm", "human-needed">>

HumanMatching(msg) == SelectSeq(HumanRoutes, LAMBDA route : HumanRouteMatches(route, msg))

HEvent(name, id) == [name |-> name, id |-> id]
HumanRequest(id, type, priority, from, now, timeout) ==
    [id |-> id, type |-> type, priority |-> priority, from |-> from,
     timestamp |-> now, timeout |-> timeout]
Wait(kind, seq, due) ==
    [kind |-> kind, seq |-> seq, listening |-> kind # "review", timer |-> kind = "approval",
     due |-> due, state |-> IF kind = "review" THEN "none" ELSE "pending", value |-> NoVerdict,
     resolutions |-> 0]

\* the state a run of handlers works on
HumanState ==
    [pending |-> pendingRequests, waits |-> humanWaits, started |-> <<>>, emitted |-> <<>>,
     results |-> <<>>, awaits |-> {}]

HResult(seq, route, value, id) == [seq |-> seq, route |-> route, value |-> value, id |-> id]

\* pendingRequests.set(request.id, request); emit('human:request', request);
\* the id is a fresh one
PostRequest(st, kind, priority, msg, seq, now) ==
    LET id == Len(st.waits) + 1
    IN  [st EXCEPT
           !.pending = Append(@, HumanRequest(id, kind, priority, msg.agentId, now,
                                              IF kind = "approval" THEN HUMAN_TIMEOUT ELSE 0)),
           !.waits = Append(@, Wait(kind, seq, now + HUMAN_TIMEOUT)),
           !.emitted = Append(@, HEvent("human:request", id))]

\* requestHumanApproval(msg): the returned promise waits for the response or
\* the timer
RequestHumanApproval(st, msg, seq, now) ==
    LET posted == PostRequest(st, "approval", "high", msg, seq, now)
    IN  [posted EXCEPT !.awaits = @ \cup {Len(posted.waits)}]

\* review that waits for the human like an approval
RequestHumanReviewMut(st, msg, seq, now) ==
    LET posted == PostRequest(st, "review", "medium", msg, seq, now)
    IN  [posted EXCEPT !.awaits = @ \cup {Len(posted.waits)},
                       !.waits[Len(posted.waits)].listening = TRUE,
                       !.waits[Len(posted.waits)].state = "pending"]

\* requestHumanReview(msg): returns at once
RequestHumanReview(st, msg, seq, now) ==
    LET posted == PostRequest(st, "review", "medium", msg, seq, now)
    IN  [posted EXCEPT !.results =
            Append(@, HResult(seq, "decision", Verdict(TRUE, "flaggedForReview"),
                              Len(posted.waits)))]

\* requestHumanAttention(msg): the returned promise waits for the response
RequestHumanAttention(st, msg, seq, now) ==
    LET posted == PostRequest(st, "input", IF msg.urgent THEN "high" ELSE "medium",
                              msg, seq, now)
    IN  [posted EXCEPT !.awaits = @ \cup {Len(posted.waits)}]

\* approval gate that lets a confident decision through
IsGatedMut(msg) ==
    /\ msg.agentId \in DOMAIN policies
    /\ msg.decisionType \in policies[msg.agentId]
    /\ msg.confidence < ATTENTION_THRESHOLD

\* policy && policy.requiresApprovalFor.includes(msg.decisionType)
IsGated(msg) ==
    /\ msg.agentId \in DOMAIN policies
    /\ msg.decisionType \in policies[msg.agentId]

\* confidence test that counts the threshold itself as low
BelowThresholdMut(msg) == msg.confidence <= ATTENTION_THRESHOLD

\* msg.confidence < this.humanAttentionThreshold
BelowThreshold(msg) == msg.confidence < ATTENTION_THRESHOLD

\* handleDecision(msg)
HandleDecision(st, msg, seq, now) ==
    IF IsGated(msg) THEN RequestHumanApproval(st, msg, seq, now)
    ELSE IF BelowThreshold(msg) THEN RequestHumanReview(st, msg, seq, now)
    ELSE [st EXCEPT !.emitted = Append(@, HEvent("agent:autonomous", 0)),
                    !.results = Append(@, HResult(seq, "decision", Verdict(TRUE, "autonomous"), 0))]

\* the handler of one route of setupRoutes
HumanHandler(route, st, msg, seq, now) ==
    CASE route = "decision" -> HandleDecision(st, msg, seq, now)
      [] route = "agent-comm" ->
            [st EXCEPT !.emitted = Append(@, HEvent("agent:background", 0)),
                       !.results = Append(@, HResult(seq, route, Verdict(FALSE, "handled"), 0))]
      [] OTHER -> RequestHumanAttention(st, msg, seq, now)

\* processQueue starts the handler of every matching route for one message
RECURSIVE RunHandlers(_, _, _, _, _)
RunHandlers(rs, st, msg, seq, now) ==
    IF rs = <<>> THEN st
    ELSE RunHandlers(Tail(rs), HumanHandler(Head(rs), st, msg, seq, now), msg, seq, now)

\* the while loop of processQueue up to its next wait for a pending handler
RECURSIVE HumanDrain(_, _, _)
HumanDrain(queue, st, now) ==
    IF queue = <<>> THEN [queue |-> <<>>, st |-> st, inFlight |-> Idle]
    ELSE LET item == Head(queue)
             after == RunHandlers(HumanMatching(item.msg),
                                  [st EXCEPT !.awaits = {}, !.started = Append(@, item)],
                                  item.msg, item.seq, now)
         IN  IF after.awaits # {}
             THEN [queue |-> Tail(queue), st |-> after,
                   inFlight |-> [busy |-> TRUE, seq |-> item.seq, awaits |-> after.awaits]]
             ELSE HumanDrain(Tail(queue), after, now)

NoHumanTimerDue ==
    \A i \in DOMAIN humanWaits : humanWaits[i].timer => clock < humanWaits[i].due

\* the outcome of a step of the coordinator that left the router with the
\* queue `queue` and the in-flight message `inFlight`, its handlers in state st
HumanOutcome(r, op, id) ==
    /\ pendingRequests' = r.st.pending
    /\ humanWaits' = r.st.waits
    /\ humanQueue' = r.queue
    /\ humanInFlight' = r.inFlight
    /\ humanLast' = [HumanNoOp EXCEPT !.op = op, !.id = id, !.started = r.st.started,
                                      !.emitted = r.st.emitted, !.results = r.st.results]

\* the route:message listener of the coordinator's router: enqueue, and start
\* processQueue unless one runs
HumanRouteMessage(msg) ==
    /\ humanArrived < MaxHumanMessages
    /\ NoHumanTimerDue
    /\ humanArrived' = humanArrived + 1
    /\ LET queue == Append(humanQueue, [msg |-> msg, seq |-> humanArrived + 1])
       IN  IF humanInFlight.busy
           THEN HumanOutcome([queue |-> queue, st |-> HumanState, inFlight |-> humanInFlight],
                             "route:message", humanArrived + 1)
           ELSE HumanOutcome(HumanDrain(queue, HumanState, clock),
                             "route:message", humanArrived + 1)
    /\ UNCHANGED <<policies, clock>>

RemoveId(reqs, id) == SelectSeq(reqs, LAMBDA r : r.id # id)

\* resolve(value) of the promise of request id; the handler that awaited it
\* returns value, and processQueue goes on once no handler is pending
Resolve(st, id, value) ==
    [st EXCEPT !.waits[id].state = "resolved",
               !.waits[id].value = IF st.waits[id].state = "pending" THEN value ELSE @,
               !.waits[id].resolutions = @ + 1,
               !.results = IF st.waits[id].state = "pending"
                           THEN Append(@, HResult(st.waits[id].seq,
                                    IF st.waits[id].kind = "approval" THEN "decision"
                                    ELSE "human-needed", value, id))
                           ELSE @]

AfterResolve(st, id) ==
    IF id \in humanInFlight.awaits /\ humanInFlight.awaits \ {id} = {}
    THEN HumanDrain(humanQueue, st, clock)
    ELSE [queue |-> humanQueue, st |-> st,
          inFlight |-> [humanInFlight EXCEPT !.awaits = @ \ {id}]]

\* membership test that takes every id for pending
HasPendingMut(id) == TRUE

\* this.pendingRequests.has(requestId)
HasPending(id) == \E k \in DOMAIN pendingRequests : pendingRequests[k].id = id

\* the once listener of response:<id>: clears the timer (approval), deletes
\* the request, resolves
OnHumanResponse(st, id, response) ==
    Resolve([st EXCEPT !.waits[id].listening = FALSE,
                       !.waits[id].timer = FALSE,
                       !.pending = RemoveId(@, id)],
            id, response)

\* respondToRequest(requestId, response)
RespondToRequest(id, response) ==
    /\ NoHumanTimerDue
    /\ IF HasPending(id)
       THEN LET st == [HumanState EXCEPT !.emitted = <<HEvent("response", id)>>]
            IN  IF id \in DOMAIN humanWaits /\ humanWaits[id].listening
                THEN HumanOutcome(AfterResolve(OnHumanResponse(st, id, response), id),
                                  "respondToRequest", id)
                ELSE HumanOutcome([queue |-> humanQueue, st |-> st,
                                   inFlight |-> humanInFlight], "respondToRequest", id)
       ELSE HumanOutcome([queue |-> humanQueue, st |-> HumanState,
                          inFlight |-> humanInFlight], "respondToRequest", id)
    /\ UNCHANGED <<policies, humanArrived, clock>>

\* timer callback that leaves the request in the pending set
ExpirePendingMut(reqs, id) == reqs

\* this.pendingRequests.delete(request.id) of the timer callback
ExpirePending(reqs, id) == RemoveId(reqs, id)

\* the timer of approval request id fires: delete, resolve({approved: false,
\* reason: 'timeout'}); the response listener stays registered
ApprovalTimeout(id) ==
    /\ id \in DOMAIN humanWaits
    /\ humanWaits[id].timer
    /\ clock >= humanWaits[id].due
    /\ LET st == [HumanState EXCEPT !.waits[id].timer = FALSE,
                                    !.pending = ExpirePending(@, id)]
       IN  HumanOutcome(AfterResolve(Resolve(st, id, Verdict(FALSE, "timeout")), id),
                        "timeout", id)
    /\ UNCHANGED <<policies, humanArrived, clock>>

HumanTick ==
    /\ NoHumanTimerDue
    /\ clock + TimeStep <= MaxTime
    /\ clock' = clock + TimeStep
    /\ humanLast' = [HumanNoOp EXCEPT !.op = "tick"]
    /\ UNCHANGED <<policies, pendingRequests, humanWaits, humanQueue, humanInFlight,
                   humanArrived>>

PriorityWeight(priority) ==
    CASE priority = "high" -> 3 [] priority = "medium" -> 2 [] OTHER -> 1

\* comparator that orders by the time stamp alone
ComparePendingMut(a, b) == a.timestamp - b.timestamp

\* the comparator of getPendingRequests
ComparePending(a, b) ==
    IF PriorityWeight(a.priority) # PriorityWeight(b.priority)
    THEN PriorityWeight(b.priority) - PriorityWeight(a.priority)
    ELSE a.timestamp - b.timestamp

\* Array.prototype.sort is stable: an element goes behind the elements
\* that do not compare greater
RECURSIVE InsertPending(_, _)
InsertPending(list, r) ==
    IF list = <<>> THEN <<r>>
    ELSE IF ComparePending(Head(list), r) <= 0
         THEN <<Head(list)>> \o InsertPending(Tail(list), r)
         ELSE <<r>> \o list

RECURSIVE SortPending(_)
SortPending(list) ==
    IF list = <<>> THEN <<>>
    ELSE InsertPending(SortPending(SubSeq(list, 1, Len(list) - 1)), list[Len(list)])

\* getPendingRequests()
GetPendingRequests ==
    /\ NoHumanTimerDue
    /\ humanLast' = [HumanNoOp EXCEPT !.op = "getPendingRequests",
                                      !.list = SortPending(pendingRequests)]
    /\ UNCHANGED <<policies, pendingRequests, humanWaits, humanQueue, humanInFlight,
                   humanArrived, clock>>

(***************************************************************************)
(* Cabal: spawnAgent and createSwarm                                       *)
(* The Cabal is built with maxAgents = MaxConcurrent.  One client calls    *)
(* it: a call starts after the call before it has settled.                 *)
(***************************************************************************)

\* largest count passed to createSwarm
MaxSwarm == 3

\* name that does not depend on the index
SwarmNameMut(i) == "agent-0"

\* `agent-${i}`
SwarmName(i) == <<"agent-0", "agent-1", "agent-2", "agent-3", "agent-4">>[i + 1]

\* names a caller passes to spawnAgent
CabalNames == {"agent-0", "helper"}
\* randomUUID() in ClaudeMultiplexer.spawnAgent: an id never handed out before
FreshUuid == <<"u1", "u2", "u3", "u4", "u5">>[FreshPid]

VARIABLES
    cabalAgents,    \* Cabal.agents: name -> the PeerAgent's multiplexer agent id
    announced,      \* number of peer:announce events per node name
    swarm,          \* the createSwarm call in progress or last settled
    cabalLast       \* what the last Cabal operation did

cabalVars == <<cabalAgents, announced, swarm, cabalLast>>

NoSwarm == [state |-> "none", count |-> 0, started |-> 0, failed |-> 0, fresh |-> TRUE]
CabalNoOp == [op |-> "none", name |-> "", result |-> ""]

CabalInit ==
    /\ cabalAgents = EmptyMap
    /\ announced = EmptyMap
    /\ swarm = NoSwarm
    /\ cabalLast = CabalNoOp

\* Cabal.spawnAgent(name): new PeerAgent(multiplexer, name), initialize()
\* (multiplexer.spawnAgent under a fresh id, then peer:announce), then
\* this.agents.set(name, agent); a capacity error rejects the call
SpawnPeer(name, op) ==
    /\ SpawnAgent(FreshUuid)
    /\ IF AtCapacity
       THEN /\ cabalLast' = [CabalNoOp EXCEPT !.op = op, !.name = name,
                                              !.result = "CapacityExceeded"]
            /\ UNCHANGED <<cabalAgents, announced>>
       ELSE /\ cabalAgents' = MapSet(cabalAgents, name, FreshUuid)
            /\ announced' = MapSet(announced, name,
                                   IF name \in DOMAIN announced THEN announced[name] + 1 ELSE 1)
            /\ cabalLast' = [CabalNoOp EXCEPT !.op = op, !.name = name, !.result = "ok"]

CabalSpawnAgent(name) ==
    /\ swarm.state # "running"
    /\ SpawnPeer(name, "spawnAgent")
    /\ UNCHANGED swarm

\* createSwarm(count): the call begins
CreateSwarm(count) ==
    /\ swarm.state # "running"
    /\ swarm' = [state |-> "running", count |-> count, started |-> 0, failed |-> 0,
                 fresh |-> cabalAgents = EmptyMap /\ agents = EmptyMap]
    /\ cabalLast' = [CabalNoOp EXCEPT !.op = "createSwarm"]
    /\ MuxIdle
    /\ UNCHANGED <<cabalAgents, announced>>

\* promises.push(this.spawnAgent(`agent-${i}`))
SwarmSpawn ==
    /\ swarm.state = "running"
    /\ swarm.started < swarm.count
    /\ SpawnPeer(SwarmName(swarm.started), "swarm:spawn")
    /\ swarm' = [swarm EXCEPT !.started = @ + 1,
                              !.failed = IF AtCapacity THEN @ + 1 ELSE @]

\* await Promise.all(promises): resolves when every spawn has, rejects when
\* one was rejected
SwarmSettles ==
    /\ swarm.state = "running"
    /\ swarm.started = swarm.count
    /\ swarm' = [swarm EXCEPT !.state = IF swarm.failed = 0 THEN "done" ELSE "rejected"]
    /\ cabalLast' = [CabalNoOp EXCEPT !.op = "createSwarm:settled",
                                      !.result = IF swarm.failed = 0 THEN "ok" ELSE "rejected"]
    /\ MuxIdle
    /\ UNCHANGED <<cabalAgents, announced>>

\* getStats().agents
StatsAgents == Cardinality(DOMAIN cabalAgents)

(***************************************************************************)
(* AutonomousAgent: executeTask and the approval gate                      *)
(* Every agent shares one coordinator.  An agent's subprocess is live for  *)
(* the whole run, so sendToAgent writes its text to the subprocess;        *)
(* autoSent is the list of those writes.                                   *)
(***************************************************************************)

\* executeTask calls overall
MaxAutoCalls == 2

AutoTasks == {"deploy", "lint"}

\* (requiresApprovalFor, backgroundTasks) passed to the constructor
AutoConfigs ==
    { [requiresApprovalFor |-> {"deploy"}, backgroundTasks |-> {}],
      [requiresApprovalFor |-> {"deploy"}, backgroundTasks |-> {"lint"}],
      [requiresApprovalFor |-> {"deploy"}, backgroundTasks |-> {"deploy"}] }

NoApproval == [approved |-> FALSE, requestId |-> 0, reason |-> "none"]

\* what is emitted as human:approval on the coordinator: the answer to the
\* human:request with the given id
ApprovalResponse(id, approved, reason) ==
    [approved |-> approved, requestId |-> id, reason |-> reason]

VARIABLES
    autoAgents,     \* per node: config, position in executeTask, its result
    autoRequests,   \* human:request events emitted on the coordinator
    autoSent,       \* texts written to subprocesses by sendToAgent
    autoCalls,      \* executeTask calls so far
    autoLast        \* what the last step did

autoVars == <<autoAgents, autoRequests, autoSent, autoCalls, autoLast>>

NoAgentState ==
    [built |-> FALSE, requiresApprovalFor |-> {}, backgroundTasks |-> {},
     phase |-> "idle", task |-> "", request |-> 0, input |-> 0, approval |-> NoApproval,
     result |-> "none", details |-> "none"]

AutoNoOp == [op |-> "none", node |-> "", resolved |-> {}]

AutoInit ==
    /\ autoAgents = [n \in NodeIds |-> NoAgentState]
    /\ autoRequests = <<>>
    /\ autoSent = <<>>
    /\ autoCalls = 0
    /\ autoLast = AutoNoOp

\* new AutonomousAgent(multiplexer, nodeId, coordinator, config)
NewAutonomousAgent(n, config) ==
    /\ ~autoAgents[n].built
    /\ autoAgents' = [autoAgents EXCEPT ![n] =
                        [NoAgentState EXCEPT !.built = TRUE,
                            !.requiresApprovalFor = config.requiresApprovalFor,
                            !.backgroundTasks = config.backgroundTasks]]
    /\ autoLast' = [AutoNoOp EXCEPT !.op = "new", !.node = n]
    /\ UNCHANGED <<autoRequests, autoSent, autoCalls>>

\* this.multiplexer.sendToAgent(this.agentId, text)
Command(n, kind, task) == [node |-> n, kind |-> kind, task |-> task]

\* the human:request of requestApproval / requestHumanInput
AutoRequest(id, type, n, task) == [id |-> id, type |-> type, from |-> n, task |-> task]

\* this.config.requiresApprovalFor.includes(task)
NeedsTaskApproval(a, task) == task \in a.requiresApprovalFor

\* executeWithConfidenceCheck up to its first await: the evaluation prompt
\* goes to the subprocess, then the 2000 ms timer is awaited
StartConfidenceCheck(n, a) ==
    /\ autoAgents' = [autoAgents EXCEPT ![n] = [a EXCEPT !.phase = "evaluating"]]
    /\ autoSent' = Append(autoSent, Command(n, "evaluate", a.task))
    /\ UNCHANGED autoRequests

\* executeTask(task, context) up to its first await
ExecuteTask(n, task) ==
    LET a == [autoAgents[n] EXCEPT !.task = task, !.request = 0, !.input = 0,
                                   !.approval = NoApproval,
                                   !.result = "none", !.details = "none"]
    IN  /\ autoAgents[n].built
        /\ autoAgents[n].phase \in {"idle", "done"}
        /\ autoCalls < MaxAutoCalls
        /\ autoCalls' = autoCalls + 1
        /\ autoLast' = [AutoNoOp EXCEPT !.op = "executeTask", !.node = n]
        /\ IF task \in a.backgroundTasks
           THEN \* executeBackgroundTask
                /\ autoSent' = Append(autoSent, Command(n, "background", task))
                /\ autoAgents' = [autoAgents EXCEPT ![n] =
                                     [a EXCEPT !.phase = "done", !.result = "success",
                                               !.details = "background"]]
                /\ UNCHANGED autoRequests
           ELSE IF NeedsTaskApproval(a, task)
           THEN \* requestApproval: once('human:approval'), emit human:request
                LET id == Len(autoRequests) + 1
                IN  /\ autoRequests' = Append(autoRequests, AutoRequest(id, "approval", n, task))
                    /\ autoAgents' = [autoAgents EXCEPT ![n] =
                                         [a EXCEPT !.phase = "awaitApproval", !.request = id]]
                    /\ UNCHANGED autoSent
           ELSE StartConfidenceCheck(n, a)

\* nodes whose once('human:approval') listener is registered
ApprovalListeners == {n \in NodeIds : autoAgents[n].phase = "awaitApproval"}

\* !approval.approved
IsRejected(response) == ~response.approved

RECURSIVE EvaluateCommands(_, _)
\* the evaluation prompts of the agents that go on, in listener order
EvaluateCommands(order, goOn) ==
    IF order = <<>> THEN <<>>
    ELSE (IF Head(order) \in goOn
          THEN <<Command(Head(order), "evaluate", autoAgents[Head(order)].task)>>
          ELSE <<>>) \o EvaluateCommands(Tail(order), goOn)

RECURSIVE ListenerOrder(_, _)
\* listeners in the order they were registered: the order of the requests
ListenerOrder(i, type) ==
    IF i > Len(autoRequests) THEN <<>>
    ELSE (IF /\ autoRequests[i].type = type
             /\ autoRequests[i].id = (IF type = "approval"
                                      THEN autoAgents[autoRequests[i].from].request
                                      ELSE autoAgents[autoRequests[i].from].input)
             /\ autoAgents[autoRequests[i].from].phase
                   = (IF type = "approval" THEN "awaitApproval" ELSE "awaitInput")
          THEN <<autoRequests[i].from>> ELSE <<>>) \o ListenerOrder(i + 1, type)

\* coordinator.emit('human:approval', response): every registered once
\* listener runs and resolves its agent's requestApproval; executeTask goes
\* on from `await this.requestApproval`
OnHumanApproval(response) ==
    LET heard == ApprovalListeners
        goOn  == {n \in heard : ~IsRejected(response)}
    IN  /\ response.requestId \in 1..Len(autoRequests)
        /\ autoRequests[response.requestId].type = "approval"
        /\ autoAgents' =
              [n \in NodeIds |->
                  IF n \notin heard THEN autoAgents[n]
                  ELSE IF n \in goOn
                  THEN [autoAgents[n] EXCEPT !.approval = response, !.phase = "evaluating"]
                  ELSE [autoAgents[n] EXCEPT !.approval = response, !.phase = "done",
                                             !.result = "human-rejected",
                                             !.details = response.reason]]
        /\ autoSent' = autoSent \o EvaluateCommands(ListenerOrder(1, "approval"), goOn)
        /\ autoLast' = [AutoNoOp EXCEPT !.op = "human:approval", !.resolved = heard]
        /\ UNCHANGED <<autoRequests, autoCalls>>

\* the 2000 ms timer of executeWithConfidenceCheck fires; low is
\* Math.random() < confidenceThreshold
ConfidenceChecked(n, low) ==
    LET a == autoAgents[n]
    IN  /\ a.phase = "evaluating"
        /\ autoLast' = [AutoNoOp EXCEPT !.op = "confidence", !.node = n]
        /\ UNCHANGED autoCalls
        /\ IF low
           THEN \* requestHumanInput: once('human:input'), emit human:request
                LET id == Len(autoRequests) + 1
                IN  /\ Len(autoRequests) < 2 * MaxAutoCalls
                    /\ autoRequests' = Append(autoRequests, AutoRequest(id, "input", n, a.task))
                    /\ autoAgents' = [autoAgents EXCEPT ![n] =
                                         [a EXCEPT !.phase = "awaitInput", !.input = id]]
                    /\ UNCHANGED autoSent
           ELSE /\ autoSent' = Append(autoSent, Command(n, "execute", a.task))
                /\ autoAgents' = [autoAgents EXCEPT ![n] =
                                     [a EXCEPT !.phase = "done", !.result = "success"]]
                /\ UNCHANGED autoRequests

RECURSIVE ExecuteCommands(_, _)
ExecuteCommands(order, goOn) ==
    IF order = <<>> THEN <<>>
    ELSE (IF Head(order) \in goOn
          THEN <<Command(Head(order), "execute", autoAgents[Head(order)].task)>>
          ELSE <<>>) \o ExecuteCommands(Tail(order), goOn)

\* coordinator.emit('human:input', response): every registered once listener
\* resolves its agent's requestHumanInput; humanInput.abort ends the task
OnHumanInput(abort) ==
    LET heard == {n \in NodeIds : autoAgents[n].phase = "awaitInput"}
        goOn  == {n \in heard : ~abort}
    IN  /\ heard # {}
        /\ autoAgents' =
              [n \in NodeIds |->
                  IF n \notin heard THEN autoAgents[n]
                  ELSE IF abort
                  THEN [autoAgents[n] EXCEPT !.phase = "done", !.result = "human-aborted"]
                  ELSE [autoAgents[n] EXCEPT !.phase = "done", !.result = "success"]]
        /\ autoSent' = autoSent \o ExecuteCommands(ListenerOrder(1, "input"), goOn)
        /\ autoLast' = [AutoNoOp EXCEPT !.op = "human:input", !.resolved = heard]
        /\ UNCHANGED <<autoRequests, autoCalls>>

(***************************************************************************)
(* ClaudeMultiplexer: a subprocess's stdout pipe                           *)
(* A line written by a subprocess reaches the stdout 'data' listener in    *)
(* one or more chunks.                                                     *)
(***************************************************************************)

\* length of the longest line
MaxLineLen == Len(Line_stream)

\* the structured messages a subprocess writes, one per line
StdoutLines == {Line_object, Line_stream}

VARIABLES
    stdoutPipe      \* the line being delivered: its writer, the chunks not
                    \* delivered yet, the events its chunks have caused

pipeVars == <<stdoutPipe>>

NoPipe == [pid |-> 0, line |-> <<>>, pending |-> <<>>, events |-> <<>>]

PipeInit == stdoutPipe = NoPipe

\* the subprocess p writes line and a line break; the pipe hands them over
\* cut before position cut
StdoutWrite(p, line, cut) ==
    /\ procs[p].state = "running"
    /\ stdoutPipe.pending = <<>>
    /\ stdoutPipe' = [pid |-> p, line |-> line,
                      pending |-> CutChunks(line \o <<NL>>, {cut}, 1), events |-> <<>>]
    /\ MuxIdle

\* agent.stdout.on('data', (data) => this.handleAgentOutput(agentId, data))
OnStdoutData ==
    /\ stdoutPipe.pending # <<>>
    /\ HandleAgentOutput(stdoutPipe.pid, Head(stdoutPipe.pending))
    /\ stdoutPipe' = [stdoutPipe EXCEPT !.pending = Tail(@),
                                        !.events = @ \o muxLast'.events]

(***************************************************************************)
(* Specifications                                                          *)
(***************************************************************************)

vars == <<muxVars, splitVars, demuxVars, queryVars, routerVars, requestVars, peerVars, peerMsgVars, humanVars, cabalVars, autoVars, pipeVars>>

Init ==
    /\ MuxInit /\ SplitInit /\ DemuxInit /\ QueryInit /\ RouterInit /\ RequestInit
    /\ PeerInit /\ PeerMsgInit /\ HumanInit /\ CabalInit /\ AutoInit /\ PipeInit

\* agent lifecycle and input
MuxNext ==
    /\ \/ \E id \in AgentIds : SpawnAgent(id)
       \/ \E id \in AgentIds, io \in WriteOutcomes : SendToAgent(id, io)
       \/ \E failing \in SUBSET AgentIds : Broadcast(failing)
       \/ \E id \in AgentIds : KillAgent(id)
       \/ KillAll
       \/ \E p \in Pids, code \in ExitCodes : AgentExit(p, code)
    /\ UNCHANGED <<splitVars, demuxVars, queryVars, routerVars, requestVars, peerVars, peerMsgVars, humanVars, cabalVars, autoVars, pipeVars>>

\* agent output
MuxOutputNext ==
    /\ \/ \E id \in AgentIds : SpawnAgent(id)
       \/ \E p \in Pids, chunk \in SampleChunks : HandleAgentOutput(p, chunk)
       \/ \E id \in AgentIds : SetStreamHandler(id)
       \/ \E id \in AgentIds : RemoveStreamHandler(id)
       \/ KillAll
    /\ UNCHANGED <<splitVars, demuxVars, queryVars, routerVars, requestVars, peerVars, peerMsgVars, humanVars, cabalVars, autoVars, pipeVars>>

SplitterNext ==
    /\ \E chunk \in SplitterChunks : Feed(chunk)
    /\ UNCHANGED <<muxVars, demuxVars, queryVars, routerVars, requestVars, peerVars, peerMsgVars, humanVars, cabalVars, autoVars, pipeVars>>

ReassemblyNext ==
    /\ \/ \E text \in SampleMessages : \E cuts \in CutSets(text) : BeginDelivery(text, cuts)
       \/ DeliverChunk
    /\ UNCHANGED <<muxVars, demuxVars, queryVars, routerVars, requestVars, peerVars, peerMsgVars, humanVars, cabalVars, autoVars, pipeVars>>

DemuxNext ==
    /\ \/ \E cid \in CorrelationIds : DemuxResponse(cid)
       \/ \E cid \in CorrelationIds \cup {""}, data \in Payloads : HandleResponse(cid, data)
       \/ \E i \in 1..MaxWaiters : ResponseTimeout(i)
       \/ Tick
    /\ UNCHANGED <<muxVars, splitVars, queryVars, routerVars, requestVars, peerVars, peerMsgVars, humanVars, cabalVars, autoVars, pipeVars>>

QueryNext ==
    /\ \/ \E n \in 0..MaxQueryAgents, timeout \in QueryTimeouts : Query(n, timeout)
       \/ \E cid \in {QueryCid, "c1"}, data \in Payloads : AgentAnswers(cid, data)
       \/ \E i \in 1..MaxQueryAgents : CollectorTimeout(i)
       \/ QueryReturn
       \/ QueryTick
    /\ UNCHANGED <<muxVars, splitVars, routerVars, requestVars, peerVars, peerMsgVars, humanVars, cabalVars, autoVars, pipeVars>>

RouterNext ==
    /\ \/ \E cfg \in RouteConfigs : AddRoute(cfg)
       \/ \E msg \in RouterMessages : OnRouteMessage(msg)
       \/ \E d \in 1..MaxMessages, rid \in 1..MaxRoutes, outcome \in HandlerOutcomes :
             HandlerSettles(d, rid, outcome)
    /\ UNCHANGED <<muxVars, splitVars, demuxVars, queryVars, requestVars, peerVars, peerMsgVars, humanVars, cabalVars, autoVars, pipeVars>>

\* routes of one topic with different priorities, messages matching several
RoutingNext ==
    /\ \/ \E cfg \in PriorityConfigs : AddRoute(cfg)
       \/ \E msg \in OverlapMessages : OnRouteMessage(msg)
       \/ \E d \in 1..MaxMessages, rid \in 1..MaxRoutes, outcome \in {"result", "error"} :
             HandlerSettles(d, rid, outcome)
    /\ UNCHANGED <<muxVars, splitVars, demuxVars, queryVars, requestVars, peerVars, peerMsgVars, humanVars, cabalVars, autoVars, pipeVars>>

\* events without data among the messages
NullNext ==
    /\ \/ \E cfg \in RouteConfigs : AddRoute(cfg)
       \/ \E msg \in RouterMessages \cup {NullMessage} : OnRouteMessage(msg)
       \/ \E d \in 1..MaxMessages, rid \in 1..MaxRoutes, outcome \in {"result", "error"} :
             HandlerSettles(d, rid, outcome)
    /\ UNCHANGED <<muxVars, splitVars, demuxVars, queryVars, requestVars, peerVars, peerMsgVars, humanVars, cabalVars, autoVars, pipeVars>>

\* handlers that return a value, return nothing or fail
ResultNext ==
    /\ \/ \E cfg \in RouteConfigs : AddRoute(cfg)
       \/ \E msg \in RouterMessages : OnRouteMessage(msg)
       \/ \E d \in 1..MaxMessages, rid \in 1..MaxRoutes, outcome \in ResultOutcomes :
             HandlerSettles(d, rid, outcome)
    /\ UNCHANGED <<muxVars, splitVars, demuxVars, queryVars, requestVars, peerVars, peerMsgVars, humanVars, cabalVars, autoVars, pipeVars>>

RequestNext ==
    /\ \/ \E topic \in RequestTopics : OnRequest(topic)
       \/ \E topic \in RequestTopics, timeout \in RequestTimeouts : Request(topic, timeout)
       \/ \E req \in 1..MaxRequests, h \in 1..MaxHandlers, outcome \in ReplyOutcomes :
             HandlerReplies([req |-> req, h |-> h], outcome)
       \/ \E i \in 1..MaxRequests : RequestTimeout(i)
       \/ RequestTick
    /\ UNCHANGED <<muxVars, splitVars, waiters, demuxLast, queryVars, routerVars, peerVars, peerMsgVars, humanVars, cabalVars, autoVars, pipeVars>>

\* discovery and shutdown
PeerDiscoveryNext ==
    /\ \/ \E n \in NodeIds : Initialize(n)
       \/ \E n \in NodeIds, nodeId \in NodeIds : OnPeerAnnounce(n, nodeId)
       \/ \E n \in NodeIds : Shutdown(n)
    /\ UNCHANGED <<splitVars, waiters, demuxLast, queryVars, routerVars, requestVars, peerMsgVars, humanVars, cabalVars, autoVars, pipeVars>>

\* requests between peers
PeerRequestNext ==
    /\ \/ \E n \in NodeIds : Initialize(n)
       \/ \E n \in NodeIds, target \in NodeIds : RequestFromPeer(n, target)
       \/ \E n \in NodeIds, i \in {1}, io \in WriteOutcomes :
             OnPeerRequest(n, i, io)
       \/ \E rid \in ResponseIds, data \in PeerData : ExternalPeerResponse(rid, data)
       \/ \E n \in NodeIds, chunk \in PeerChunks : PeerAgentOutput(n, chunk)
       \/ \E i \in {1} : PeerTimeout(i)
       \/ PeerTick
    /\ UNCHANGED <<splitVars, waiters, demuxLast, queryVars, routerVars, requestVars, peerMsgVars, humanVars, cabalVars, autoVars, pipeVars>>

\* messages between peers
PeerMessageNext ==
    /\ \/ \E n \in NodeIds : Initialize(n) /\ UNCHANGED peerMsgVars
       \/ \E n \in NodeIds, target \in PeerTargets, type \in ContentTypes :
             SendToPeer(n, target, type)
       \/ \E n \in NodeIds, type \in ContentTypes : PeerBroadcast(n, type)
       \/ \E n \in NodeIds, i \in 1..MaxPeerMessages, io \in WriteOutcomes :
             OnPeerMessage(n, i, io)
    /\ UNCHANGED <<splitVars, waiters, demuxLast, queryVars, routerVars, requestVars, humanVars, cabalVars, autoVars, pipeVars>>

\* the coordinator: policies, decisions, approvals
HumanDecisionNext ==
    /\ \/ \E agentId \in PolicyAgents, list \in ApprovalLists :
             SetAgentPolicy(agentId, list) /\ UNCHANGED clock
       \/ \E msg \in DecisionMessages : HumanRouteMessage(msg)
       \/ \E id \in 1..(MaxHumanMessages + 1), response \in HumanResponses :
             RespondToRequest(id, response)
       \/ \E id \in 1..MaxHumanMessages : ApprovalTimeout(id)
       \/ HumanTick
    /\ UNCHANGED <<muxVars, splitVars, waiters, demuxLast, queryVars, routerVars, requestVars,
                   peerVars, peerMsgVars, cabalVars, autoVars, pipeVars>>

\* the coordinator: requests for attention, the pending set
HumanAttentionNext ==
    /\ \/ \E msg \in AttentionMessages : HumanRouteMessage(msg)
       \/ \E id \in 1..(2 * MaxHumanMessages), response \in HumanResponses :
             RespondToRequest(id, response)
       \/ GetPendingRequests
       \/ HumanTick
    /\ UNCHANGED <<muxVars, splitVars, waiters, demuxLast, queryVars, routerVars, requestVars,
                   peerVars, peerMsgVars, cabalVars, autoVars, pipeVars>>

\* the Cabal: agents spawned one by one and as a swarm
SwarmNext ==
    /\ \/ \E name \in CabalNames : CabalSpawnAgent(name)
       \/ \E count \in 0..MaxSwarm : CreateSwarm(count)
       \/ SwarmSpawn
       \/ SwarmSettles
    /\ UNCHANGED <<splitVars, demuxVars, queryVars, routerVars, requestVars, peerVars,
                   peerMsgVars, humanVars, autoVars, pipeVars>>

\* autonomous agents sharing one coordinator
AutoNext ==
    /\ \/ \E n \in NodeIds, config \in AutoConfigs : NewAutonomousAgent(n, config)
       \/ \E n \in NodeIds, task \in AutoTasks : ExecuteTask(n, task)
       \/ \E id \in 1..MaxAutoCalls, approved \in BOOLEAN, reason \in {"human", "timeout"} :
             /\ approved => reason = "human"
             /\ OnHumanApproval(ApprovalResponse(id, approved, reason))
       \/ \E n \in NodeIds, low \in BOOLEAN : ConfidenceChecked(n, low)
       \/ \E abort \in BOOLEAN : OnHumanInput(abort)
    /\ UNCHANGED <<muxVars, splitVars, demuxVars, queryVars, routerVars, requestVars,
                   peerVars, peerMsgVars, humanVars, cabalVars, pipeVars>>

\* lines written by subprocesses and read in chunks
StdoutNext ==
    /\ \/ \E id \in AgentIds : SpawnAgent(id) /\ UNCHANGED pipeVars
       \/ \E p \in Pids, line \in StdoutLines, cut \in 2..(MaxLineLen + 1) :
             cut <= Len(line) + 1 /\ StdoutWrite(p, line, cut)
       \/ OnStdoutData
    /\ UNCHANGED <<splitVars, demuxVars, queryVars, routerVars, requestVars, peerVars,
                   peerMsgVars, humanVars, cabalVars, autoVars>>

Next == MuxNext \/ MuxOutputNext \/ SplitterNext \/ ReassemblyNext \/ DemuxNext \/ QueryNext \/ RouterNext \/ RequestNext \/ PeerDiscoveryNext \/ PeerRequestNext \/ PeerMessageNext \/ HumanDecisionNext \/ HumanAttentionNext \/ SwarmNext \/ AutoNext \/ RoutingNext \/ ResultNext \/ NullNext \/ StdoutNext

\* all components side by side
Spec == Init /\ [][Next]_vars
\* one component at a time
SpecMux == Init /\ [][MuxNext]_vars
SpecMuxOutput == Init /\ [][MuxOutputNext]_vars
SpecSplitter == Init /\ [][SplitterNext]_vars
SpecReassembly == Init /\ [][ReassemblyNext]_vars
SpecDemux == Init /\ [][DemuxNext]_vars
SpecQuery == Init /\ [][QueryNext]_vars
SpecRouter == Init /\ [][RouterNext]_vars
SpecRouting == Init /\ [][RoutingNext]_vars
SpecResult == Init /\ [][ResultNext]_vars
SpecNull == Init /\ [][NullNext]_vars
SpecRequest == Init /\ [][RequestNext]_vars
SpecPeerDiscovery == Init /\ [][PeerDiscoveryNext]_vars
SpecPeerRequest == Init /\ [][PeerRequestNext]_vars
SpecPeerMessage == Init /\ [][PeerMessageNext]_vars
SpecHumanDecision == Init /\ [][HumanDecisionNext]_vars
SpecHumanAttention == Init /\ [][HumanAttentionNext]_vars
SpecSwarm == Init /\ [][SwarmNext]_vars
SpecAuto == Init /\ [][AutoNext]_vars
SpecStdout == Init /\ [][StdoutNext]_vars
\* timers fire, time passes and settled promises run their continuations
SpecQueryLive ==
    /\ SpecQuery
    /\ WF_vars(QueryTick /\ UNCHANGED <<muxVars, splitVars, routerVars, requestVars, peerVars, peerMsgVars, humanVars, cabalVars, autoVars, pipeVars>>)
    /\ WF_vars(QueryReturn /\ UNCHANGED <<muxVars, splitVars, routerVars, requestVars, peerVars, peerMsgVars, humanVars, cabalVars, autoVars, pipeVars>>)
    /\ WF_vars((\E i \in 1..MaxQueryAgents : CollectorTimeout(i)) /\ UNCHANGED <<muxVars, splitVars, routerVars, requestVars, peerVars, peerMsgVars, humanVars, cabalVars, autoVars, pipeVars>>)

(***************************************************************************)
(* ClaudeMultiplexer: properties                                           *)
(***************************************************************************)

\* C1: the number of entries of the agent table never exceeds maxConcurrent,
\* and a spawnAgent issued while the table holds maxConcurrent entries fails
\* with the capacity error, starts no subprocess, emits no agent:spawn and
\* leaves the tables unchanged.
C1_CapacityNeverExceeded ==
    /\ [](LiveCount <= MaxConcurrent)
    /\ [][(LiveCount = MaxConcurrent /\ muxLast'.op = "spawnAgent")
             => /\ muxLast'.result = "CapacityExceeded"
                /\ muxLast'.events = <<>>
                /\ UNCHANGED <<agents, messageBuffer, procs>>]_vars

\* a spawn was refused at capacity
C1_Witness ==
    /\ muxLast.op = "spawnAgent"
    /\ muxLast.result = "CapacityExceeded"
    /\ LiveCount = MaxConcurrent

\* C2: at capacity, killAgent of a live id followed directly by a spawnAgent:
\* the spawn succeeds and the table is back at maxConcurrent entries.
C2_KillThenSpawnRefills ==
    [][(/\ muxLast.op = "killAgent"
        /\ muxLast.kills # {}
        /\ LiveCount = MaxConcurrent - 1
        /\ muxLast'.op = "spawnAgent")
          => (muxLast'.result = "ok" /\ LiveCount' = MaxConcurrent)]_vars

\* C3: sendToAgent for an id without an entry in the agent table fails with
\* the agent-not-found error, emits no message:send and writes to no pipe.
C3_SendToUnknownFails ==
    (muxLast.op = "sendToAgent" /\ muxLast.id \notin DOMAIN agents)
        => /\ muxLast.result = "AgentNotFound"
           /\ muxLast.events = <<>>
           /\ muxLast.writes = {}

\* a send to an id whose subprocess has exited was refused
C3_Witness ==
    /\ muxLast.op = "sendToAgent"
    /\ muxLast.result = "AgentNotFound"
    /\ \E p \in Pids : procs[p].agentId = muxLast.id /\ procs[p].state = "exited"

\* C4: a killAgent that directly follows a killAgent of the same id, or that
\* names an id without an entry in the agent table, raises no error, signals
\* no subprocess and changes no table; no subprocess ever receives more than
\* one kill signal or has more than one agent:exit event.
C4_KillIdempotent ==
    /\ [][(/\ muxLast'.op = "killAgent"
           /\ \/ muxLast'.id \notin DOMAIN agents
              \/ (muxLast.op = "killAgent" /\ muxLast.id = muxLast'.id))
             => /\ muxLast'.result = "ok"
                /\ muxLast'.kills = {}
                /\ UNCHANGED <<agents, messageBuffer, streamHandlers, procs, exitEvents>>]_vars
    /\ [](\A p \in Pids : procs[p].signals <= 1 /\ exitEvents[p] <= 1)

\* a second killAgent arrived while the killed subprocess had not exited yet
C4_Witness ==
    /\ muxLast.op = "killAgent"
    /\ muxLast.kills = {}
    /\ \E p \in Pids : /\ procs[p].agentId = muxLast.id
                       /\ procs[p].state = "running"
                       /\ procs[p].signals > 0

\* C5: a subprocess that has terminated has exactly one agent:exit event,
\* carrying its agent id and exit code, and neither its handle nor its
\* message buffer is in the tables afterwards.
C5_ExitEmitsOnceAndRemoves ==
    /\ \A p \in Pids :
          exitEvents[p] = IF procs[p].state = "exited" THEN 1 ELSE 0
    /\ \A p \in Pids :
          procs[p].state = "exited"
            => /\ \A id \in DOMAIN agents : agents[id] # p
               /\ \A id \in DOMAIN messageBuffer : messageBuffer[id].owner # p
    /\ muxLast.op = "exit"
          => muxLast.events =
                <<Event("agent:exit", procs[muxLast.pid].agentId, Undefined,
                        Str(<<muxLast.result>>))>>

\* a subprocess exited after it was killed
C5_Witness ==
    /\ muxLast.op = "exit"
    /\ procs[muxLast.pid].state = "exited"
    /\ procs[muxLast.pid].signals > 0

\* C6: broadcast attempts a send to every live agent and always resolves.
C6_BroadcastAlwaysResolves ==
    muxLast.op = "broadcast"
        => (muxLast.result = "ok" /\ Len(muxLast.events) = LiveCount)

\* what the claim C7 calls a line that parses as a structured message
IsStructuredLine(line) == JSONParse(line).ok /\ JSONParse(line).val[1] # "null"

C8_ReassembledOnce ==
    original # <<>>
        => IF pending # <<>>
           THEN routedLog = <<>> /\ emittedCount = 0
           ELSE routedLog = <<JSONParse(original).val>>

IsStreamEnd(msg) == GetProp(msg, K_type) = Str(V_streamEnd)

\* index of the last stream:end in msgs, 0 when there is none
RECURSIVE LastEnd(_, _)
LastEnd(msgs, i) ==
    IF i = 0 THEN 0
    ELSE IF IsStreamEnd(msgs[i]) THEN i
    ELSE LastEnd(msgs, i - 1)

\* C9: per stream id, every routed message adds exactly one to the chunk
\* count of the stream's entry, the count changes in no other way while the
\* entry exists, a stream:end message removes the entry, and the first
\* message after that creates a fresh entry counting from 1.
C9_ChunkCountSteps ==
    [][\A sid \in (DOMAIN metadata) \cup (DOMAIN metadata')
                  \cup {StreamIdOf(splitLast'.routed[i]) : i \in 1..Len(splitLast'.routed)} :
          LET forSid == SelectSeq(splitLast'.routed, LAMBDA m : StreamIdOf(m) = sid)
              ended == LastEnd(forSid, Len(forSid))
              before == IF sid \in DOMAIN metadata THEN metadata[sid].chunks ELSE 0
          IN  IF Len(forSid) = 0
              THEN /\ (sid \in DOMAIN metadata) = (sid \in DOMAIN metadata')
                   /\ sid \in DOMAIN metadata => metadata'[sid].chunks = before
              ELSE IF ended = 0
              THEN /\ sid \in DOMAIN metadata'
                   /\ metadata'[sid].chunks = before + Len(forSid)
              ELSE IF ended = Len(forSid)
              THEN sid \notin DOMAIN metadata'
              ELSE /\ sid \in DOMAIN metadata'
                   /\ metadata'[sid].chunks = Len(forSid) - ended]_vars

\* a stream id was used again right after its stream:end and counts 1
C9_Witness ==
    /\ Len(routedLog) >= 3
    /\ LET n == Len(routedLog)
           sid == StreamIdOf(routedLog[n])
       IN  /\ StreamIdOf(routedLog[n - 1]) = sid
           /\ StreamIdOf(routedLog[n - 2]) = sid
           /\ IsStreamEnd(routedLog[n - 1])
           /\ ~IsStreamEnd(routedLog[n])
           /\ sid \in DOMAIN metadata
           /\ metadata[sid].chunks = 1

\* C10: every demuxResponse promise is settled by one call only: it resolves
\* with the payload of the first message carrying its correlation id that is
\* handled while it is open, is rejected only once its 30000 ms have passed
\* without such a message, and a settled promise has neither listener nor
\* timer left.
C10_SettledByFirstMatchOrTimeout ==
    \A i \in DOMAIN waiters :
        LET w == waiters[i]
        IN  /\ w.settleCalls <= 1
            /\ w.firstMatch # "" => (w.state = "resolved" /\ w.value = w.firstMatch)
            /\ w.state = "rejected" => clock >= w.registeredAt + RESPONSE_TIMEOUT
            /\ w.state # "pending" => (~w.listening /\ ~w.timer)
\* C11: a query to 2 agents during which exactly one answer with the query's
\* correlation id arrives before the query timeout resolves with exactly one
\* collected response.
C11_OneAnswerOneResponse ==
    (query.state = "resolved" /\ query.n = 2 /\ query.answers = 1)
        => query.resultLen = 1

\* C12: query never rejects, is not left waiting past the first clock reading
\* at or after its timeout, and every query that was started resolves, also
\* when no agent answers and the demux waiters of its collectors time out.
C12_QueryAlwaysResolves ==
    /\ [](query.state # "rejected")
    /\ [](query.state = "waiting" => clock - TimeStep < query.due)
    /\ (query.state = "waiting") ~> (query.state = "resolved")

\* no agent answered, the collectors' waiters timed out before the query's own
\* timer, and the query resolved with an empty array
C12_Witness ==
    /\ query.state = "resolved"
    /\ query.n = 2
    /\ query.resultLen = 0
    /\ clock < query.due
    /\ \A i \in Collectors : waiters[i].state = "rejected"
\* C13: messages are dequeued in arrival order, at most one drain loop runs
\* (the processing flag is set exactly while it runs), and handlers of a
\* message are started only in a step after which no handler started for an
\* earlier message is still pending.
C13_FifoOneInFlight ==
    /\ [](Len(drains) <= 1)
    /\ [](processing <=> drains # <<>>)
    /\ [](\A i \in DOMAIN dispatched : dispatched[i] = i)
    /\ [][routerLast'.started # <<>>
            => \A d \in DOMAIN drains : drains[d].pending \subseteq {routerLast'.settled}]_vars

\* a message that arrived while a handler was pending waited in the queue and
\* its handlers were started when that handler settled
C13_Witness ==
    /\ routerLast.op = "settle"
    /\ routerLast.started # <<>>
    /\ Len(dispatched) >= 2
    /\ processing

RouteErrors(events) == {i \in DOMAIN events : events[i].name = "route:error"}

\* C14: when a handler fails, exactly one route:error with the topic, the
\* pattern and the error message of that handler is emitted, the other
\* handlers of the message stay pending until they settle themselves, and if
\* it was the last one the next queued message is dequeued.
C14_FailureReportedAndIsolated ==
    [][(/\ routerLast'.op = "settle"
        /\ drains' # drains
        /\ routerLast'.outcome \in {"error", "undefined"})
          => LET d == CHOOSE i \in DOMAIN drains : routerLast'.settled \in drains[i].pending
                 route == RouteOf(drains[d], routerLast'.settled)
                 siblings == drains[d].pending \ {routerLast'.settled}
                 errs == RouteErrors(routerLast'.events)
             IN  /\ Cardinality(errs) = 1
                 /\ \A i \in errs :
                       /\ routerLast'.events[i].topic = route.topic
                       /\ routerLast'.events[i].pattern = PatternToString(route.pattern)
                       /\ routerLast'.events[i].error # ""
                 /\ siblings # {} => drains'[d].pending = siblings
                 /\ (siblings = {} /\ messageQueue # <<>>)
                       => Len(dispatched') > Len(dispatched)]_vars
\* C15: every request promise is settled by at most one call; a resolved one
\* carries the return value of the handler whose reply came first, a rejected
\* one carries the request-timeout error, was rejected at or after its bound
\* and had no reply before; a settled one has neither listener nor timer, and
\* no promise stays pending after a reply.
C15_RequestSettlesOnce ==
    \A i \in DOMAIN requests :
        LET r == requests[i]
        IN  /\ r.settleCalls <= 1
            /\ r.state = "resolved"
                 => r.firstReply.kind = "result" /\ r.value = r.firstReply.value
            /\ r.state = "rejected"
                 => r.value = "Request timeout" /\ clock >= r.due /\ r.firstReply = NoReply
            /\ r.state # "pending" => ~r.listening /\ ~r.timer
            /\ r.state = "pending" => r.firstReply = NoReply

\* C16: a request handler is called only for requests of its own topic, and
\* when it ends a reply is emitted on the reply address, {result, success:true}
\* after a success and {error, success:false} after a failure, which settles
\* the request if it is still pending.
C16_EveryRequestIsAnswered ==
    /\ [](\A inv \in invocations : reqHandlers[inv.h] = requests[inv.req].topic)
    /\ [][(reqLast'.op = "reply" /\ invocations' # invocations)
            => /\ reqLast'.outcome = "result" => reqLast'.reply.kind = "result"
               /\ reqLast'.outcome # "result" => reqLast'.reply.kind = "error"
               /\ requests[reqLast'.req].state = "pending"
                    => requests'[reqLast'.req].state # "pending"]_vars
\* C17: a requestFromPeer promise never rejects and settles once; it stays
\* pending only while no response with its request id has arrived and its 30
\* second bound has not passed; it resolves to the data of the first response
\* with its id, or to null at the bound when there was none; once it is
\* resolved, or its timer has fired, its response listener is removed.
C17_PeerRequestSettlesOnce ==
    /\ [](\A i \in DOMAIN peerRequests :
            LET r == peerRequests[i]
            IN  /\ r.state \in {"pending", "resolved"}
                /\ r.state = "resolved" => ~r.listening
                /\ ~r.timer => ~r.listening
                /\ r.state = "pending" => r.firstMatch = "" /\ clock - TimeStep < r.due
                /\ r.state = "resolved"
                     => IF r.firstMatch = ""
                        THEN r.value = "null" /\ clock >= r.due
                        ELSE r.value = r.firstMatch)
    /\ [][\A i \in DOMAIN peerRequests :
            peerRequests[i].state = "resolved"
              => /\ peerRequests'[i].state = "resolved"
                 /\ peerRequests'[i].value = peerRequests[i].value]_vars

\* the bound passed without a response carrying the request id and the timer
\* resolved the promise to null
C17_Witness ==
    /\ peerLast.op = "timeout"
    /\ peerRequests[1].state = "resolved"
    /\ peerRequests[1].value = "null"
    /\ peerRequests[1].from # peerRequests[1].to

\* C18: when the subprocess of the target node prints a response while a
\* request that the target forwarded to it is pending, the target emits a
\* peer:response with the request id and the requester's promise resolves to
\* the response data.
C18_ForwardedRequestIsAnswered ==
    [][(/\ peerLast'.op = "output"
        /\ peerLast'.result = "message:receive"
        /\ peerRequests # <<>>
        /\ peerRequests[1].state = "pending"
        /\ peerLast'.node = peerRequests[1].to
        /\ peerRequests[1].to \in peerRequests[1].forwardedBy)
          => /\ \E k \in DOMAIN peerLast'.emitted :
                   /\ peerLast'.emitted[k].name = "peer:response"
                   /\ peerLast'.emitted[k].requestId = 1
             /\ peerRequests'[1].state = "resolved"
             /\ peerRequests'[1].value # "null"]_vars

\* C19: a shutdown call on a node that was shut down before raises no error,
\* emits no peer:leave and sends no kill signal.
C19_ShutdownIdempotent ==
    [][(/\ peerLast'.op = "shutdown"
        /\ peerNodes' # peerNodes
        /\ peerNodes[peerLast'.node].shutdowns >= 1)
          => /\ peerLast'.result = "ok"
             /\ peerLast'.emitted = <<>>
             /\ muxLast'.kills = {}]_vars

\* C20: the peer set of a node is the set of node ids it has received
\* announcements of, without its own id; the listener emits one
\* peer:discovered for an announcement of another node and none for its own.
C20_PeersAreAnnouncedOthers ==
    /\ \A n \in NodeIds : peerNodes[n].peers = peerNodes[n].heard \ {n}
    /\ peerLast.op = "peer:announce"
         => IF peerLast.result # peerLast.node
            THEN peerLast.emitted = <<BusEvent("peer:discovered", peerLast.result, 0, "")>>
            ELSE peerLast.emitted = <<>>

\* a node has received its own announcement and that of the other node
C20_Witness ==
    \E n \in NodeIds :
        /\ n \in peerNodes[n].heard
        /\ peerNodes[n].peers # {}
        /\ peerLast.op = "peer:announce"
(***************************************************************************)
(* PeerAgent messages: properties                                          *)
(***************************************************************************)

\* the statement of C21 with `reserved` as the broadcast target
HandlesExactlyItsMessages(reserved) ==
    /\ peerLast.op = "sendToPeer"
         => /\ Len(peerLast.emitted) = 1
            /\ peerLast.emitted[1].to = peerLast.result
    /\ peerLast.op = "broadcast"
         => /\ Len(peerLast.emitted) = 1
            /\ peerLast.emitted[1].to = reserved
    /\ \A i \in DOMAIN peerMessages : \A n \in peerMessages[i].deliveredTo :
          i \in peerInbox[n].handled
             <=> (peerMessages[i].msg.to = n \/ peerMessages[i].msg.to = reserved)

\* only sendToPeer and broadcast put a peer:message on the bus, one per call
OneMessagePerCall ==
    [][Len(peerMessages') = Len(peerMessages)
          + (IF peerLast'.op \in {"sendToPeer", "broadcast"} THEN 1 ELSE 0)]_vars

\* C21 as stated: a node handles a peer:message if and only if its target is
\* the node's own id or the reserved target "all"; sendToPeer emits exactly
\* one message to its target and broadcast exactly one message to "all".
C21_Original == HandlesExactlyItsMessages("all")

\* C21, amended: a node handles a peer:message if and only if its target is
\* the node's own id or the reserved target "broadcast"; sendToPeer(target, c)
\* emits exactly one message addressed to target and nothing emits it again;
\* broadcast(c) emits exactly one message addressed to "broadcast", which
\* every node receiving it handles.
C21_HandlesOwnAndBroadcast ==
    /\ []HandlesExactlyItsMessages(V_broadcast)
    /\ OneMessagePerCall

\* a broadcast message has reached both nodes and both handled it
C21_Witness ==
    /\ peerLast.op = "peer:message"
    /\ \E i \in DOMAIN peerMessages :
          /\ peerMessages[i].msg.to = V_broadcast
          /\ peerMessages[i].deliveredTo = NodeIds
          /\ \A n \in NodeIds : i \in peerInbox[n].handled
(***************************************************************************)
(* HumanInTheLoopCoordinator: properties                                   *)
(***************************************************************************)

\* the ids of the requests the handlers of message seq posted
RequestsFor(ws, seq) == {id \in DOMAIN ws : ws[id].seq = seq}
\* the number of human:request announcements of request id
Announcements(emitted, id) ==
    Cardinality({k \in DOMAIN emitted : emitted[k] = HEvent("human:request", id)})
PendingIds(reqs) == {reqs[k].id : k \in DOMAIN reqs}
PendingOfType(reqs, id, type) ==
    Cardinality({k \in DOMAIN reqs : reqs[k].id = id /\ reqs[k].type = type})
ResultsFor(results, seq) == {k \in DOMAIN results : results[k].seq = seq}
\* the deciding agent has a policy that lists the decision's action name
NeedsApproval(msg) ==
    /\ msg.agentId \in DOMAIN policies
    /\ msg.decisionType \in policies[msg.agentId]

\* C22: when the handler of a decision runs whose action name is in the
\* deciding agent's requiresApprovalFor list, whatever its confidence, it
\* posts exactly one request, of type approval, to the pending set, announces
\* it once with human:request and produces no result in that step; the result
\* of an approval request is produced only by the respondToRequest call for
\* that request, as the human's response, or by its timer once the timeout
\* has passed, as the timeout verdict.
C22_GatedDecisionsWaitForApproval ==
    /\ [][\A k \in DOMAIN humanLast'.started :
            LET item == humanLast'.started[k]
                ids == RequestsFor(humanWaits', item.seq)
            IN  NeedsApproval(item.msg)
                  => /\ Cardinality(ids) = 1
                     /\ ResultsFor(humanLast'.results, item.seq) = {}
                     /\ \A id \in ids :
                           /\ id \notin DOMAIN humanWaits
                           /\ PendingOfType(pendingRequests', id, "approval") = 1
                           /\ Announcements(humanLast'.emitted, id) = 1
                           /\ humanWaits'[id].kind = "approval"
                           /\ humanWaits'[id].state = "pending"]_vars
    /\ [][\A j \in DOMAIN humanLast'.results :
            LET r == humanLast'.results[j]
            IN  (r.id \in DOMAIN humanWaits /\ humanWaits[r.id].kind = "approval")
                  => /\ humanLast'.id = r.id
                     /\ \/ humanLast'.op = "respondToRequest" /\ r.value \in HumanResponses
                        \/ /\ humanLast'.op = "timeout"
                           /\ r.value = Verdict(FALSE, "timeout")
                           /\ clock >= humanWaits[r.id].due]_vars

\* a confident decision of a gated action waits for approval
C22_Witness ==
    /\ humanLast.op = "route:message"
    /\ \E k \in DOMAIN humanLast.started :
          /\ NeedsApproval(humanLast.started[k].msg)
          /\ humanLast.started[k].msg.confidence >= ATTENTION_THRESHOLD
          /\ \E id \in RequestsFor(humanWaits, humanLast.started[k].seq) :
                humanWaits[id].state = "pending" /\ id \in PendingIds(pendingRequests)
\* C23: the timer of an approval request is set to the timeout after the
\* request's creation; a request still unanswered when the timeout has
\* passed is resolved by its timer to {approved: false, reason: "timeout"},
\* and the same step removes it from the pending set.
C23_UnansweredApprovalTimesOut ==
    /\ [](\A k \in DOMAIN pendingRequests :
            LET r == pendingRequests[k]
            IN  r.type = "approval"
                  => /\ humanWaits[r.id].timer
                     /\ humanWaits[r.id].state = "pending"
                     /\ humanWaits[r.id].due = r.timestamp + HUMAN_TIMEOUT
                     /\ clock - TimeStep < humanWaits[r.id].due)
    /\ [][humanLast'.op = "timeout"
            => LET id == humanLast'.id
               IN  /\ humanWaits[id].state = "pending"
                   /\ clock >= humanWaits[id].due
                   /\ id \in PendingIds(pendingRequests)
                   /\ id \notin PendingIds(pendingRequests')
                   /\ humanWaits'[id].state = "resolved"
                   /\ humanWaits'[id].value = Verdict(FALSE, "timeout")
                   /\ \E j \in DOMAIN humanLast'.results :
                         /\ humanLast'.results[j].id = id
                         /\ humanLast'.results[j].value = Verdict(FALSE, "timeout")]_vars

\* an approval request has timed out
C23_Witness ==
    /\ humanLast.op = "timeout"
    /\ humanWaits[humanLast.id].kind = "approval"
    /\ humanWaits[humanLast.id].value = Verdict(FALSE, "timeout")
    /\ clock >= HUMAN_TIMEOUT
\* the decision needs no approval and its confidence is below the threshold
NeedsReview(msg) == ~NeedsApproval(msg) /\ msg.confidence < ATTENTION_THRESHOLD

\* C24: when the handler of a decision runs that needs no approval and whose
\* confidence is below the threshold, the same step produces its result,
\* approved and flagged for review with the id of the request, posts exactly
\* one request of type review to the pending set and announces it once with
\* human:request; nothing waits for that request.
C24_UnsureDecisionsAreFlaggedNotBlocked ==
    [][\A k \in DOMAIN humanLast'.started :
          LET item == humanLast'.started[k]
              ids == RequestsFor(humanWaits', item.seq)
          IN  NeedsReview(item.msg)
                => /\ Cardinality(ids) = 1
                   /\ \A id \in ids :
                         /\ id \notin DOMAIN humanWaits
                         /\ PendingOfType(pendingRequests', id, "review") = 1
                         /\ Announcements(humanLast'.emitted, id) = 1
                         /\ ~humanWaits'[id].listening
                         /\ ~humanWaits'[id].timer
                         /\ id \notin humanInFlight'.awaits
                         /\ \A j \in ResultsFor(humanLast'.results, item.seq) :
                               /\ humanLast'.results[j].value.approved
                               /\ humanLast'.results[j].value.flag = "flaggedForReview"
                               /\ humanLast'.results[j].id = id
                   /\ Cardinality(ResultsFor(humanLast'.results, item.seq)) = 1]_vars

\* an unsure decision was flagged for review and its result returned
C24_Witness ==
    /\ humanLast.op = "route:message"
    /\ \E k \in DOMAIN humanLast.started :
          /\ NeedsReview(humanLast.started[k].msg)
          /\ \E j \in DOMAIN humanLast.results :
                humanLast.results[j].value = Verdict(TRUE, "flaggedForReview")
    /\ \E k \in DOMAIN pendingRequests : pendingRequests[k].type = "review"
    /\ ~humanInFlight.busy

\* the decision needs no approval and its confidence is not below the threshold
Autonomous(msg) == ~NeedsApproval(msg) /\ msg.confidence >= ATTENTION_THRESHOLD

\* C25: when the handler of a decision runs that needs no approval and whose
\* confidence is at or above the threshold, the same step produces its
\* result, approved and autonomous, and posts no request for it; a step that
\* handles only such decisions leaves the pending set as it was and emits
\* nothing but one agent:autonomous event per decision.
C25_ConfidentDecisionsAreAutoApproved ==
    [][/\ \A k \in DOMAIN humanLast'.started :
            LET item == humanLast'.started[k]
            IN  Autonomous(item.msg)
                  => /\ RequestsFor(humanWaits', item.seq) = {}
                     /\ Cardinality(ResultsFor(humanLast'.results, item.seq)) = 1
                     /\ \A j \in ResultsFor(humanLast'.results, item.seq) :
                           humanLast'.results[j].value = Verdict(TRUE, "autonomous")
       /\ (/\ humanLast'.op = "route:message"
           /\ humanLast'.started # <<>>
           /\ \A k \in DOMAIN humanLast'.started : Autonomous(humanLast'.started[k].msg))
             => /\ pendingRequests' = pendingRequests
                /\ humanWaits' = humanWaits
                /\ humanLast'.emitted =
                      [k \in DOMAIN humanLast'.started |-> HEvent("agent:autonomous", 0)]]_vars

\* a decision with a confidence equal to the threshold was auto-approved
C25_Witness ==
    /\ humanLast.op = "route:message"
    /\ \E k \in DOMAIN humanLast.started :
          /\ Autonomous(humanLast.started[k].msg)
          /\ humanLast.started[k].msg.confidence = ATTENTION_THRESHOLD
    /\ humanLast.results # <<>>
\* C26: the promise of a request is resolved at most once; a respondToRequest
\* call for an id that is not in the pending set (unknown, already answered
\* or timed out) emits nothing, resolves nothing and changes neither the
\* pending set, the waits nor the router's queue.
C26_AtMostOneResolution ==
    /\ [](\A id \in DOMAIN humanWaits : humanWaits[id].resolutions <= 1)
    /\ [][\A id \in DOMAIN humanWaits :
            humanWaits[id].state = "resolved"
              => /\ humanWaits'[id].state = "resolved"
                 /\ humanWaits'[id].value = humanWaits[id].value]_vars
    /\ [][(/\ humanLast'.op = "respondToRequest"
           /\ humanLast'.id \notin PendingIds(pendingRequests))
             => /\ humanLast'.emitted = <<>>
                /\ humanLast'.results = <<>>
                /\ humanLast'.started = <<>>
                /\ UNCHANGED <<policies, pendingRequests, humanWaits, humanQueue,
                               humanInFlight, humanArrived>>]_vars

\* a response arrived for a request that had timed out before
C26_Witness ==
    /\ humanLast.op = "respondToRequest"
    /\ humanLast.id \in DOMAIN humanWaits
    /\ humanWaits[humanLast.id].value = Verdict(FALSE, "timeout")
    /\ humanWaits[humanLast.id].resolutions = 1
    /\ humanLast.emitted = <<>>
\* C27: after respondToRequest(id, r) for an id in the pending set, the
\* pending set no longer contains that id, whatever the type of the request.
C27_ResponseRemovesRequest ==
    [][(/\ humanLast'.op = "respondToRequest"
        /\ humanLast'.id \in PendingIds(pendingRequests))
          => humanLast'.id \notin PendingIds(pendingRequests')]_vars

\* C28: every wait for a human response has an armed timer and is settled
\* once its timeout has passed, so the router is not held by a wait whose
\* timeout has passed while messages are queued.
C28_EveryWaitHasATimeout ==
    \A id \in DOMAIN humanWaits :
        humanWaits[id].state = "pending"
          => /\ humanWaits[id].timer
             /\ clock - TimeStep < humanWaits[id].due
\* high before medium before low
PriorityRank(priority) ==
    CASE priority = "high" -> 1 [] priority = "medium" -> 2 [] priority = "low" -> 3

InPriorityOrder(list) ==
    \A i, j \in DOMAIN list :
        i < j => \/ PriorityRank(list[i].priority) < PriorityRank(list[j].priority)
                 \/ /\ list[i].priority = list[j].priority
                    /\ list[i].timestamp <= list[j].timestamp

\* the pending set {low, t=1}, {high, t=2}, {medium, t=3} in insertion order
ExamplePending ==
    << HumanRequest(1, "input", "low", "a1", 1, 0),
       HumanRequest(2, "approval", "high", "a1", 2, HUMAN_TIMEOUT),
       HumanRequest(3, "review", "medium", "a1", 3, 0) >>

\* C29: getPendingRequests returns the requests of the pending set, each
\* once, with high before medium before low priority and, within a priority,
\* in ascending order of creation time; {low, t=1}, {high, t=2}, {medium, t=3}
\* comes back as [high@2, medium@3, low@1]; the call leaves the pending set
\* unchanged.
C29_PendingRequestsInPriorityOrder ==
    /\ [](humanLast.op = "getPendingRequests"
            => /\ Len(humanLast.list) = Len(pendingRequests)
               /\ {humanLast.list[i] : i \in DOMAIN humanLast.list}
                     = {pendingRequests[k] : k \in DOMAIN pendingRequests}
               /\ InPriorityOrder(humanLast.list)
               /\ SortPending(ExamplePending)
                     = <<ExamplePending[2], ExamplePending[3], ExamplePending[1]>>)
    /\ [][humanLast'.op = "getPendingRequests"
            => pendingRequests' = pendingRequests /\ humanWaits' = humanWaits]_vars

\* the pending set held a medium request posted before a high one, and the
\* call returned them in the other order
C29_Witness ==
    /\ humanLast.op = "getPendingRequests"
    /\ Len(humanLast.list) >= 2
    /\ humanLast.list # pendingRequests
    /\ humanLast.list[1].priority = "high"
(***************************************************************************)
(* Cabal: properties                                                       *)
(***************************************************************************)

\* C30: when createSwarm(n) settles on a Cabal that had no agents when the
\* call began and whose maximum is at least n, it has resolved, the Cabal
\* reports n agents, the multiplexer holds n agents with a running
\* subprocess each, every peer agent has one of them and no two share one,
\* and each peer agent was announced once.
C30_SwarmHasOneLiveAgentPerPeer ==
    (/\ cabalLast.op = "createSwarm:settled"
     /\ swarm.fresh
     /\ swarm.count <= MaxConcurrent)
       => /\ swarm.state = "done"
          /\ Cardinality(DOMAIN cabalAgents) = swarm.count
          /\ Cardinality(DOMAIN agents) = swarm.count
          /\ {cabalAgents[name] : name \in DOMAIN cabalAgents} = DOMAIN agents
          /\ \A id \in DOMAIN agents : procs[agents[id]].state = "running"
          /\ DOMAIN announced = DOMAIN cabalAgents
          /\ \A name \in DOMAIN announced : announced[name] = 1

\* a swarm as large as the maximum has been created
C30_Witness ==
    /\ cabalLast.op = "createSwarm:settled"
    /\ swarm.fresh
    /\ swarm.state = "done"
    /\ swarm.count = MaxConcurrent
    /\ Cardinality(DOMAIN cabalAgents) = MaxConcurrent

(***************************************************************************)
(* AutonomousAgent: properties                                             *)
(***************************************************************************)

\* the commands written to subprocesses by this step
NewCommands == {autoSent'[i] : i \in (Len(autoSent) + 1)..Len(autoSent')}

\* the human:request events emitted by this step
NewAutoRequests == {autoRequests'[i] : i \in (Len(autoRequests) + 1)..Len(autoRequests')}

\* the agent holds an approval with approved = true given to its own request
ApprovedForIt(a) ==
    /\ a.request # 0
    /\ a.approval.approved
    /\ a.approval.requestId = a.request

\* C31: an execute command for a task listed in the agent's
\* requiresApprovalFor is written to the subprocess only after an approval
\* with approved = true was received for that task's request; a rejection or
\* a timed-out approval ends executeTask with the failure result, and the
\* agent then sends nothing and asks nothing until executeTask is called
\* again.
C31_ExecuteOnlyAfterApproval ==
    [][ /\ \A c \in NewCommands :
             (c.kind \in {"execute", "background"}
                /\ c.task \in autoAgents'[c.node].requiresApprovalFor)
             => ApprovedForIt(autoAgents'[c.node])
        /\ \A n \in NodeIds :
             (autoLast'.op = "human:approval" /\ n \in autoLast'.resolved
                /\ ~autoAgents'[n].approval.approved)
             => /\ autoAgents'[n].phase = "done"
                /\ autoAgents'[n].result = "human-rejected"
        /\ \A n \in NodeIds :
             (autoAgents[n].result = "human-rejected"
                /\ ~(autoLast'.op = "executeTask" /\ autoLast'.node = n))
             => /\ autoAgents'[n] = autoAgents[n]
                /\ \A c \in NewCommands : c.node # n
                /\ \A r \in NewAutoRequests : r.from # n ]_vars

(***************************************************************************)
(* AsyncRouter: route order, matching and results                          *)
(***************************************************************************)

\* the priority a route is sorted by: 0 when none was given
SortKey(route) == IF route.priority = -1 THEN 0 ELSE route.priority

\* by priority descending; among equal priorities the route added first
\* (the lower rid) comes first
InRouteOrder(list) ==
    \A i, j \in DOMAIN list :
        i < j => \/ SortKey(list[i]) > SortKey(list[j])
                 \/ SortKey(list[i]) = SortKey(list[j]) /\ list[i].rid < list[j].rid

\* the started handlers that belong to one topic, in start order
RECURSIVE OfTopic(_, _)
OfTopic(list, topic) ==
    IF list = <<>> THEN <<>>
    ELSE (IF Head(list).topic = topic THEN <<Head(list)>> ELSE <<>>)
         \o OfTopic(Tail(list), topic)

\* C32: after every addRoute each topic's route list is sorted by priority
\* descending, a missing priority counting as 0, and routes of equal priority
\* stay in the order they were added; the handlers of one topic that match a
\* message are started in that order.
C32_RoutesSortedByPriority ==
    /\ [](\A t \in DOMAIN routes : InRouteOrder(routes[t].list))
    /\ [][\A t \in DOMAIN routes' :
             InRouteOrder(OfTopic(routerLast'.started, routes'[t].topic))]_vars

\* a topic holds a route without priority in front of a later route of
\* priority 0 and behind a route of priority 5 that was added after it, and
\* the handlers of two of its routes were started for one message
C32_Witness ==
    /\ \E t \in DOMAIN routes :
          /\ Len(routes[t].list) >= 2
          /\ \/ /\ routes[t].list[1].priority = -1
                /\ routes[t].list[2].priority = 0
             \/ /\ routes[t].list[1].priority = 5
                /\ routes[t].list[1].rid > routes[t].list[2].rid
          /\ Len(OfTopic(routerLast.started, routes[t].topic)) >= 2

\* every registered route, whatever its topic
RegisteredRoutes == UNION {RidsOf(routes[t].list) : t \in DOMAIN routes}

RouteByRid(rid) ==
    CHOOSE r \in UNION {{routes[t].list[i] : i \in DOMAIN routes[t].list} : t \in DOMAIN routes} :
        r.rid = rid

\* the matching rule written out for the messages and patterns in use: a
\* string pattern equals the message's topic or type, the pattern /t1/ occurs
\* in the JSON text of the message
PatternFits(msg, pattern) ==
    IF pattern.kind = "string"
    THEN pattern.text \in {msg.topic, msg.type}
    ELSE pattern.text = T_t1 /\ msg.topic = T_t1

\* C33: for each dequeued message the router invokes exactly once every
\* route, in every topic, whose pattern matches the message and invokes no
\* route whose pattern does not match; a match of higher priority does not
\* keep a matching route of lower priority from being invoked.
C33_EveryMatchingRouteInvokedOnce ==
    [][\A k \in DOMAIN routerLast'.dequeued :
          LET e == routerLast'.dequeued[k]
          IN  /\ RidsOf(e.started) =
                    {rid \in RegisteredRoutes : PatternFits(e.msg, RouteByRid(rid).pattern)}
              /\ \A i, j \in DOMAIN e.started :
                    e.started[i].rid = e.started[j].rid => i = j]_vars

\* one message started the handlers of two routes of one topic, one of
\* priority 5 and one of priority 0, while a third route was not started
C33_Witness ==
    \E k \in DOMAIN routerLast.dequeued :
       \E i, j \in DOMAIN routerLast.dequeued[k].started :
          /\ routerLast.dequeued[k].started[i].topic = routerLast.dequeued[k].started[j].topic
          /\ routerLast.dequeued[k].started[i].priority = 5
          /\ routerLast.dequeued[k].started[j].priority = 0

\* the route:result events among the events of a step
RouteResults(events) == {i \in DOMAIN events : events[i].name = "route:result"}

\* C34: every handler invocation that succeeds with a return value causes
\* exactly one route:result event, which carries the original message, the
\* returned result and the route's topic; a handler that fails causes no
\* route:result.
C34_ResultIsReEmitted ==
    [][(routerLast'.op = "settle" /\ drains' # drains)
          => LET d == CHOOSE i \in DOMAIN drains : routerLast'.settled \in drains[i].pending
                 route == RouteOf(drains[d], routerLast'.settled)
                 results == RouteResults(routerLast'.events)
             IN  /\ routerLast'.outcome \in {"result", "falsy"}
                       => /\ Cardinality(results) = 1
                          /\ \A i \in results :
                                /\ routerLast'.events[i].originalMsg = drains[d].msg
                                /\ routerLast'.events[i].result
                                      = ReturnValueOfHandler(routerLast'.outcome)
                                /\ routerLast'.events[i].topic = route.topic
                 /\ routerLast'.outcome \in {"error", "undefined"} => results = {}]_vars

(***************************************************************************)
(* ClaudeMultiplexer: output that arrives in pieces                        *)
(***************************************************************************)

\* C36: a structured message that a subprocess writes as one line and that
\* reaches the multiplexer split across two stdout chunks is delivered as
\* exactly one message:receive with the original content and not as raw
\* agent:output fragments.
C36_SplitLineIsOneMessage ==
    (stdoutPipe.line # <<>> /\ stdoutPipe.pending = <<>>)
        => /\ Len(stdoutPipe.events) = 1
           /\ stdoutPipe.events[1].name = "message:receive"
           /\ stdoutPipe.events[1].data = JSONParse(stdoutPipe.line).val

(***************************************************************************)
(* ClaudeMultiplexer: an id that is used again                             *)
(***************************************************************************)

\* C37: the exit event of a subprocess removes only that subprocess's own
\* handle: when the agent id was killed and spawned again before the old
\* subprocess's exit event is delivered, that exit event leaves the new
\* agent's handle and message buffer in place, so sendToAgent to the id
\* still finds the agent.
C37_ExitRemovesOnlyOwnHandle ==
    [][(/\ muxLast'.op = "exit"
        /\ procs[muxLast'.pid].signals > 0
        /\ muxLast'.id \in DOMAIN agents
        /\ agents[muxLast'.id] # muxLast'.pid)
          => /\ muxLast'.id \in DOMAIN agents'
             /\ agents'[muxLast'.id] = agents[muxLast'.id]
             /\ muxLast'.id \in DOMAIN messageBuffer'
             /\ SendEffect(muxLast'.id, "ok").result = "ok"]_vars

\* C38: every subprocess started by spawnAgent that has neither exited nor
\* been killed has its handle in the agent table, where killAgent and killAll
\* find it; a spawnAgent with an id that is live never replaces the handle
\* of a running subprocess.
C38_RunningSubprocessIsReachable ==
    \A p \in Pids :
        (procs[p].state = "running" /\ procs[p].signals = 0)
            => \E id \in DOMAIN agents : agents[id] = p

(***************************************************************************)
(* AsyncRouter: the queue is drained                                       *)
(***************************************************************************)

\* C39: no message received on route:message is left stranded in the queue:
\* whenever the queue is non-empty a drain loop is running, which dequeues
\* and dispatches it once the handlers in front of it have terminated, and
\* the processing flag is set only while a drain loop runs.
C39_NoMessageStranded ==
    /\ messageQueue # <<>> => drains # <<>>
    /\ processing => drains # <<>>

(***************************************************************************)
(* PeerAgent: who forwards a request                                       *)
(***************************************************************************)

\* C40: a peer:request addressed to node T is forwarded to a subprocess only
\* by node T; a node with another id, the requesting node included, does
\* not write the request to its own subprocess.
C40_OnlyTargetForwards ==
    [][(peerLast'.op = "peer:request" /\ muxLast'.writes # {})
          => peerLast'.node = peerRequests[peerLast'.req].to]_vars

(***************************************************************************)
(* StreamSplitter: the reassembly buffer after a dispatch                  *)
(***************************************************************************)

\* C35: whenever the splitter parses and dispatches a message, a complete
\* line or a reassembled one, its reassembly buffer is empty afterwards: a
\* processChunk call that dispatched a message and buffered no new text
\* leaves no buffered text behind.
C35_BufferEmptyAfterDispatch ==
    [][(/\ fedCount' = fedCount + 1
        /\ splitLast'.routed # <<>>
        /\ buffers' = buffers)
          => buffers' = EmptyMap]_vars

====
